---- MODULE Spec2Model ----
(***************************************************************************)
(* Legal trial simulation: the Monte Carlo engine                          *)
(* (simulation/montecarlo.py), the trial protocol and the judge's verdict  *)
(* parsing (simulation/simulation.py) and the MongoDB-backed engine        *)
(* (simulation/montecarlo_mongodb.py).                                     *)
(*                                                                         *)
(* Python lists are objects: a CaseEvidence field holds a reference to a   *)
(* list, and two fields holding the same reference see each other's        *)
(* appends.  The model keeps every list in `heap` and stores references    *)
(* (indices into heap) in the evidence records.                            *)
(*                                                                         *)
(* Optional values (None or an object) are sequences of length 0 or 1.     *)
(* confidence_score is kept in hundredths: 70 is 0.7, 100 is 1.0.          *)
(***************************************************************************)
EXTENDS Integers, Sequences, FiniteSets, TLC

VARIABLES
    heap,                  \* the list objects: heap[r] is the content of list r
    base_evidence,         \* EnhancedMonteCarloSimulation.base_evidence (None or a CaseEvidence)
    researched_statutes,   \* .researched_statutes (a list reference)
    researched_precedents, \* .researched_precedents (a list reference)
    results,               \* .results: the SimulationResults of the current run
    analysis,              \* .analysis (None or a MonteCarloAnalysis)
    pc,                    \* "idle", or "loop" inside run_simulations' for loop
    n_simulations,         \* run_simulations' argument while the loop runs
    randomization_config,  \* run_simulations' randomization_config while the loop runs
    ret,                   \* what the last call returned or raised (value None while it runs)
    calls,                 \* the role calls made by the last call's trial, in call order
    variants,              \* the variants derived from the current base evidence, in order
    researched,            \* the content of the base evidence when research completed
    i,                     \* the index of run_simulations' for loop
    trial,                 \* the last call of run_single_simulation (None before the first)
    trials,                \* number of trials and derivations so far (bounded)
    \* JudgeAgent.evaluate_case on one completion text
    judge_response,        \* the completion text the judge received (None: none yet)
    judge_verdict,         \* the Verdict made of it (None: none yet)
    judge_path,            \* which code made it: "structured", "fallback" or "error"
    \* LegalSimulation (simulation.py)
    sim_case_evidence,     \* .case_evidence (None until prepare_case)
    sim_arguments,         \* .arguments: the 'prosecutor' and 'defense' lists
    sim_verdict,           \* .verdict (None or a Verdict)
    sim_calls,             \* the role calls of the last run_trial, in call order
    sim_ret,               \* what the last call on the LegalSimulation returned or raised
    sim_runs,              \* number of run_trial calls so far (bounded)
    \* MongoEnhancedMonteCarloSimulation (montecarlo_mongodb.py)
    auto_save,             \* .auto_save
    is_monte_carlo_batch,  \* whether the attribute _is_monte_carlo_batch exists
    saved_simulation_ids,  \* .saved_simulation_ids
    monte_carlo_doc_id,    \* .monte_carlo_doc_id (None or a document id)
    research_collection,   \* the research documents stored: the id of a document is its index
    trial_format,          \* the trial format the last trial selected: "standard" or "enhanced"
    \* ProsecutorAgent / DefenseAgent._parse_json_argument on one completion text
    arg_call,              \* the agent, and what its helpers do with the completion text
    arg_result,            \* what _parse_json_argument returned or raised (None: not called)
    \* Construction of the engine with persistence, and the API's entry point
    db_connection,         \* the environment: whether MongoDBManager() can connect
    app_db_manager,        \* backend/app.py's global db_manager (None until one is made)
    constructed,           \* what MongoEnhancedMonteCarloSimulation(...) gave (None: not called)
    api_request,           \* the last request to /api/run-simulation (None: none yet)
    api_response,          \* the response to it, and the trials run for it (None: none yet)
    \* MonteCarloSimulation.save_results
    saved_file,            \* the content of the file save_results wrote last (None: no file)
    \* One SimulationVariables object
    sim_variables,         \* its fields
    randomize_call,        \* the last randomize on it: its flags and the fields before (None: fresh)
    \* One BaseAgent (agents/baseAgent.py)
    memory_limit,          \* .memory_limit (None: unlimited)
    chat_history,          \* .chat_history
    added,                 \* every message _add_message was called with, in call order
    \* The legacy MonteCarloSimulation.run_simulations (simulation.py)
    legacy_pc,             \* "idle" or "loop"
    legacy_n,              \* num_simulations of the call
    legacy_i,              \* the loop index i (from 0)
    legacy_base,           \* whether the local base_evidence is bound
    legacy_results,        \* the local list results
    legacy_ret,            \* what the last call returned or raised
    \* A MongoAgent (mongoAgent.py) and the simulations collection it saves to
    mongo_agent_pc,        \* "none" before construction, then "live" or "raised"
    mongo_agent,           \* the agent's fields
    simulations_collection, \* the documents of the collection, in insertion order
    mongo_agent_calls,     \* the calls made on the agent since construction
    \* get_db_manager (app.py) under the threaded server
    module_db_manager,     \* the module-level db_manager
    thread_pc,             \* per request thread: its position in get_db_manager
    thread_local,          \* per request thread: the manager it holds, or None
    managers_constructed,  \* the MongoDBManager objects constructed so far
    get_db_manager_calls   \* the calls of get_db_manager so far

engineVars == <<heap, base_evidence, researched_statutes, researched_precedents,
                results, analysis, pc, n_simulations, randomization_config, ret,
                calls, variants, researched, i, trial, trials>>

verdictVars == <<judge_response, judge_verdict, judge_path>>

simVars == <<sim_case_evidence, sim_arguments, sim_verdict, sim_calls, sim_ret,
             sim_runs>>

mongoVars == <<auto_save, is_monte_carlo_batch, saved_simulation_ids,
               monte_carlo_doc_id, research_collection, trial_format>>

parseVars == <<arg_call, arg_result>>

\* The variables of the components checked on their own.
entryVars == <<db_connection, app_db_manager, constructed, api_request,
              api_response>>

fileVars == <<saved_file>>

variablesVars == <<sim_variables, randomize_call>>

agentVars == <<memory_limit, chat_history, added>>

\* The agents, the legacy simulation and the server.
legacyVars == <<legacy_pc, legacy_n, legacy_i, legacy_base, legacy_results,
               legacy_ret>>

mongoAgentVars ==
    <<mongo_agent_pc, mongo_agent, simulations_collection, mongo_agent_calls>>

serverVars ==
    <<module_db_manager, thread_pc, thread_local, managers_constructed,
      get_db_manager_calls>>

peripheralVars == <<agentVars, legacyVars, mongoAgentVars, serverVars>>

auxVars == <<parseVars, entryVars, fileVars, variablesVars, peripheralVars>>

\* What the operations of one peripheral component leave alone.
exceptAgent ==
    <<engineVars, verdictVars, simVars, mongoVars, parseVars, entryVars, fileVars,
      variablesVars, legacyVars, mongoAgentVars, serverVars>>

exceptLegacy ==
    <<engineVars, verdictVars, simVars, mongoVars, parseVars, entryVars, fileVars,
      variablesVars, agentVars, mongoAgentVars, serverVars>>

exceptMongoAgent ==
    <<engineVars, verdictVars, simVars, mongoVars, parseVars, entryVars, fileVars,
      variablesVars, agentVars, legacyVars, serverVars>>

exceptServer ==
    <<engineVars, verdictVars, simVars, mongoVars, parseVars, entryVars, fileVars,
      variablesVars, agentVars, legacyVars, mongoAgentVars>>

\* The variables the engine's own operations leave alone.
nonEngineVars == <<verdictVars, simVars, mongoVars, auxVars>>

vars == <<engineVars, verdictVars, simVars, mongoVars, auxVars>>

----------------------------------------------------------------------------
(* Bounds of the model. *)

\* Trials (and direct variant derivations) over the life of one engine.
MaxTrials == 2

----------------------------------------------------------------------------
(* Small helpers. *)

None == <<>>
Some(x) == <<x>>
IsNone(o) == o = <<>>
Val(o) == o[1]

Min2(a, b) == IF a < b THEN a ELSE b

\* Python lst[:n] for n >= 0: a NEW list holding the first min(n, len) items.
SliceTo(s, n) == SubSeq(s, 1, Min2(n, Len(s)))

RECURSIVE SumSeq(_)
SumSeq(s) == IF s = <<>> THEN 0 ELSE s[1] + SumSeq(Tail(s))

Elems(s) == {s[k] : k \in DOMAIN s}

----------------------------------------------------------------------------
(* The heap of list objects. *)

\* A new list object with content s: the reference is the next free index.
Alloc(h, s) == [heap |-> Append(h, s), ref |-> Len(h) + 1]

\* list.append(x) on the list object r.
HeapAppend(h, r, x) == [h EXCEPT ![r] = Append(@, x)]

----------------------------------------------------------------------------
(* SimulationVariables (montecarlo.py). *)

Strategies == {"aggressive", "moderate", "conservative"}
Temperaments == {"strict", "balanced", "lenient"}

\* SimulationVariables(): the dataclass defaults.
DefaultVariables ==
    [prosecutor_strategy |-> "moderate",
     defense_strategy |-> "moderate",
     judge_temperament |-> "balanced",
     has_nda |-> TRUE,
     evidence_strength |-> "moderate",
     venue_bias |-> "neutral",
     num_statutes_cited |-> 3,
     num_precedents_cited |-> 3,
     defendant_cooperation |-> "moderate",
     plaintiff_damages_claim |-> "moderate",
     time_since_departure |-> 3,
     competitor_relationship |-> "direct"]

\* A randomize that draws every field, whatever the flags.
RandomizeAll(v, fixed_strategies, fixed_evidence, d) == d

\* SimulationVariables.randomize: d holds the values the random source
\* returns for the twelve draws; the flags keep the covered fields.
randomize(v, fixed_strategies, fixed_evidence, d) ==
    [prosecutor_strategy |->
        IF fixed_strategies THEN v.prosecutor_strategy ELSE d.prosecutor_strategy,
     defense_strategy |->
        IF fixed_strategies THEN v.defense_strategy ELSE d.defense_strategy,
     judge_temperament |->
        IF fixed_strategies THEN v.judge_temperament ELSE d.judge_temperament,
     has_nda |-> IF fixed_evidence THEN v.has_nda ELSE d.has_nda,
     evidence_strength |->
        IF fixed_evidence THEN v.evidence_strength ELSE d.evidence_strength,
     venue_bias |-> IF fixed_evidence THEN v.venue_bias ELSE d.venue_bias,
     num_statutes_cited |-> d.num_statutes_cited,
     num_precedents_cited |-> d.num_precedents_cited,
     defendant_cooperation |-> d.defendant_cooperation,
     plaintiff_damages_claim |-> d.plaintiff_damages_claim,
     time_since_departure |-> d.time_since_departure,
     competitor_relationship |-> d.competitor_relationship]

\* The draws the model explores: every branch of create_variant_evidence
\* (hostile / cooperative / neither, time gap above and below 6 months,
\* competitor none / direct) is taken by one of them.
SampleDraws ==
    { [prosecutor_strategy |-> "aggressive", defense_strategy |-> "conservative",
       judge_temperament |-> "strict", has_nda |-> FALSE,
       evidence_strength |-> "weak", venue_bias |-> "plaintiff-friendly",
       num_statutes_cited |-> 2, num_precedents_cited |-> 2,
       defendant_cooperation |-> c.coop, plaintiff_damages_claim |-> "minimal",
       time_since_departure |-> c.months, competitor_relationship |-> c.comp] :
      c \in { [coop |-> "hostile", months |-> 3, comp |-> "direct"],
              [coop |-> "cooperative", months |-> 3, comp |-> "direct"],
              [coop |-> "moderate", months |-> 7, comp |-> "indirect"],
              [coop |-> "moderate", months |-> 6, comp |-> "none"] } }

\* Draws of the random source that, between them, return every value of
\* every list and both ends of every range randomize draws from.
RandomDraws ==
    { [prosecutor_strategy |-> a.p, defense_strategy |-> a.d,
       judge_temperament |-> a.j, has_nda |-> b.nda,
       evidence_strength |-> b.strength, venue_bias |-> b.venue,
       num_statutes_cited |-> c.statutes, num_precedents_cited |-> c.precedents,
       defendant_cooperation |-> c.coop, plaintiff_damages_claim |-> c.damages,
       time_since_departure |-> c.months, competitor_relationship |-> c.comp] :
      a \in { [p |-> "aggressive", d |-> "conservative", j |-> "strict"],
              [p |-> "moderate", d |-> "aggressive", j |-> "lenient"],
              [p |-> "conservative", d |-> "moderate", j |-> "balanced"] },
      b \in { [nda |-> TRUE, strength |-> "weak", venue |-> "plaintiff-friendly"],
              [nda |-> FALSE, strength |-> "strong", venue |-> "defendant-friendly"],
              [nda |-> FALSE, strength |-> "moderate", venue |-> "neutral"] },
      c \in { [statutes |-> 2, precedents |-> 5, coop |-> "hostile",
               damages |-> "minimal", months |-> 1, comp |-> "direct"],
              [statutes |-> 5, precedents |-> 2, coop |-> "cooperative",
               damages |-> "extensive", months |-> 12, comp |-> "none"],
              [statutes |-> 4, precedents |-> 3, coop |-> "moderate",
               damages |-> "moderate", months |-> 7, comp |-> "indirect"] } }

\* randomization_config values a caller passes (None is the first).
RandomizationConfigs ==
    { [fixed_strategies |-> FALSE, fixed_evidence |-> FALSE] }

----------------------------------------------------------------------------
(* CaseEvidence and the Research collaborator (simulation.py). *)

\* What ResearchAgent.gather_evidence returns, by content: a researched case
\* with an NDA, and the degraded packet of an unparseable case analysis.
ResearchOutputs ==
    { [has_nda |-> TRUE, evidence_strength |-> "strong", venue_bias |-> "neutral",
       statutes |-> <<"DTSA 1836", "UTSA 1", "CUTSA 3426">>,
       precedents |-> <<"Waymo v. Uber", "PepsiCo v. Redmond", "Kewanee v. Bicron">>,
       facts |-> <<"Defendant signed an NDA", "Files were downloaded before departure">>,
       documents |-> <<>>,
       plaintiff_claims |-> <<"Misappropriation of trade secrets">>,
       defendant_claims |-> <<"Independent development">>,
       disputed_facts |-> <<"Whether the code was copied">>],
      [has_nda |-> FALSE, evidence_strength |-> "moderate", venue_bias |-> "neutral",
       statutes |-> <<>>, precedents |-> <<>>, facts |-> <<>>, documents |-> <<>>,
       plaintiff_claims |-> <<>>, defendant_claims |-> <<>>, disputed_facts |-> <<>>] }

ListFields == {"statutes", "precedents", "facts", "documents",
               "plaintiff_claims", "defendant_claims", "disputed_facts"}

\* The content of evidence e (its list fields dereferenced) in heap h.
Content(h, e) ==
    [has_nda |-> e.has_nda, evidence_strength |-> e.evidence_strength,
     venue_bias |-> e.venue_bias,
     statutes |-> h[e.statutes], precedents |-> h[e.precedents],
     facts |-> h[e.facts], documents |-> h[e.documents],
     plaintiff_claims |-> h[e.plaintiff_claims],
     defendant_claims |-> h[e.defendant_claims],
     disputed_facts |-> h[e.disputed_facts]]

\* gather_evidence builds a CaseEvidence whose seven lists are new objects.
gather_evidence(h, out) ==
    LET n == Len(h) IN
    [heap |-> h \o <<out.statutes, out.precedents, out.facts, out.documents,
                     out.plaintiff_claims, out.defendant_claims, out.disputed_facts>>,
     evidence |->
        [has_nda |-> out.has_nda, evidence_strength |-> out.evidence_strength,
         venue_bias |-> out.venue_bias,
         statutes |-> n + 1, precedents |-> n + 2, facts |-> n + 3,
         documents |-> n + 4, plaintiff_claims |-> n + 5,
         defendant_claims |-> n + 6, disputed_facts |-> n + 7]]

\* The f-string of the time-gap claim.
TimeGapClaim(months) ==
    "Significant time gap (" \o ToString(months) \o " months) weakens causation"

\* EnhancedMonteCarloSimulation.create_variant_evidence, after the
\* base_evidence check: the CaseEvidence constructor receives two slices (new
\* lists) and the base evidence's own five other lists; the appends that
\* follow go to whatever list the variant's field refers to.
create_variant_evidence(h, base, rstat, rprec, variables) ==
    LET a1 == Alloc(h, SliceTo(h[rstat], variables.num_statutes_cited))
        a2 == Alloc(a1.heap, SliceTo(a1.heap[rprec], variables.num_precedents_cited))
        variant ==
            [has_nda |-> variables.has_nda,
             evidence_strength |-> variables.evidence_strength,
             venue_bias |-> variables.venue_bias,
             statutes |-> a1.ref,
             precedents |-> a2.ref,
             facts |-> base.facts,
             documents |-> base.documents,
             plaintiff_claims |-> base.plaintiff_claims,
             defendant_claims |-> base.defendant_claims,
             disputed_facts |-> base.disputed_facts]
        h1 == IF variables.defendant_cooperation = "hostile"
              THEN HeapAppend(a2.heap, variant.disputed_facts,
                              "Defendant refuses to cooperate with discovery")
              ELSE IF variables.defendant_cooperation = "cooperative"
              THEN HeapAppend(a2.heap, variant.facts,
                              "Defendant has cooperated with investigation")
              ELSE a2.heap
        h2 == IF variables.time_since_departure > 6
              THEN HeapAppend(h1, variant.defendant_claims,
                              TimeGapClaim(variables.time_since_departure))
              ELSE h1
        h3 == IF variables.competitor_relationship = "none"
              THEN HeapAppend(h2, variant.defendant_claims,
                              "Companies are not direct competitors")
              ELSE h2
    IN [heap |-> h3, variant |-> variant]

\* What the state keeps of one derivation: the variant, the variables it was
\* derived with and the content of the variant when the call returned.
Derivation(cv, variables) ==
    [variant |-> cv.variant, variables |-> variables,
     returned |-> Content(cv.heap, cv.variant)]

----------------------------------------------------------------------------
(* The judge's verdict (simulation.py, JudgeAgent._parse_verdict). *)

\* A completion text returned to the judge, described by what _parse_verdict
\* reads of it:
\*   body        what json.loads gives for the text once the markdown fence
\*               is stripped: "dict", "other" (a list, a number, a string)
\*               or "invalid" (JSONDecodeError)
\*   winner      the dict's "winner": kind "missing", "str" or "nonstr"
\*   confidence  the dict's "confidence_score": kind "missing", "num" (v in
\*               hundredths), "nan" (the JSON literal NaN) or "invalid"
\*               (null, or a string that is no number)
\*   sliceable   whether key_factors and cited_authorities can be sliced
\*   has_plaintiff, has_win, has_settlement
\*               whether the lowercased text contains that substring
JudgeResponse(body, wkind, w, ckind, c, sliceable, hp, hw, hs) ==
    [body |-> body, winner |-> [kind |-> wkind, s |-> w],
     confidence |-> [kind |-> ckind, v |-> c], sliceable |-> sliceable,
     has_plaintiff |-> hp, has_win |-> hw, has_settlement |-> hs]

\* Every description over these values, the fields of a text that is no
\* JSON object being absent.
WinnerValues ==
    { [kind |-> "missing", s |-> ""], [kind |-> "nonstr", s |-> ""] }
    \cup { [kind |-> "str", s |-> w] :
           w \in {"plaintiff", "Plaintiff", "defendant", "Defendant",
                  "settlement", "draw"} }

ConfidenceValues ==
    { [kind |-> "missing", v |-> 0], [kind |-> "nan", v |-> 0],
      [kind |-> "invalid", v |-> 0] }
    \cup { [kind |-> "num", v |-> c] : c \in {-20, 0, 85, 100, 101, 9500} }

AllJudgeResponses ==
    { r \in [body : {"dict", "other", "invalid"}, winner : WinnerValues,
             confidence : ConfidenceValues, sliceable : BOOLEAN,
             has_plaintiff : BOOLEAN, has_win : BOOLEAN, has_settlement : BOOLEAN] :
        /\ r.body # "dict" =>
              /\ r.winner.kind = "missing"
              /\ r.confidence.kind = "missing"
              /\ r.sliceable
        \* a text that holds a winner string holds its substrings
        /\ r.winner.kind # "missing" => r.has_win
        /\ r.winner.s \in {"plaintiff", "Plaintiff"} => r.has_plaintiff
        /\ r.winner.s = "settlement" => r.has_settlement }

\* The texts the judge's completion returns in the Monte Carlo trials.
JudgeResponses ==
    { \* {"winner": "plaintiff", "confidence_score": 0.85, ...}
      JudgeResponse("dict", "str", "plaintiff", "num", 85, TRUE, TRUE, TRUE, FALSE),
      \* {"winner": "Defendant", "confidence_score": 95, ...}  (95 meant as percent)
      JudgeResponse("dict", "str", "Defendant", "num", 9500, TRUE, FALSE, TRUE, FALSE),
      \* {"winner": "settlement", "confidence_score": 0.6, ...}
      JudgeResponse("dict", "str", "settlement", "num", 60, TRUE, FALSE, TRUE, TRUE),
      \* I find for the defendant.
      JudgeResponse("invalid", "missing", "", "missing", 0, TRUE, FALSE, FALSE, FALSE) }

\* str.lower() on the winner strings that occur.
Lower(w) == CASE w = "Plaintiff" -> "plaintiff"
              [] w = "Defendant" -> "defendant"
              [] w = "Settlement" -> "settlement"
              [] OTHER -> w

\* Python max(a, x) with float a: x only when x > a, which is false for NaN.
PyMax(a, x) == IF x.kind = "num" /\ x.v > a THEN x.v ELSE a

\* Python min(a, y): y only when y < a.
PyMin(a, y) == IF y < a THEN y ELSE a

\* float(x) alone, without the clamp.
UnclampedConfidence(x) == IF x.kind = "num" THEN x.v ELSE 0
\* min(1.0, max(0.0, float(x)))
ClampConfidence(x) == PyMin(100, PyMax(0, x))

\* The try block of _parse_verdict raises (and the except block takes over)
\* when the text is no JSON object, when winner has no lower(), when a list
\* field cannot be sliced or when float() rejects the confidence.
ParseRaises(r) ==
    \/ r.body # "dict"
    \/ r.winner.kind = "nonstr"
    \/ ~r.sliceable
    \/ r.confidence.kind = "invalid"

\* The try block: the structured verdict.
StructuredVerdict(r) ==
    LET w == IF r.winner.kind = "missing" THEN "defendant" ELSE Lower(r.winner.s)
        conf == IF r.confidence.kind = "missing"
                THEN [kind |-> "num", v |-> 70]
                ELSE r.confidence
    IN [outcome |-> IF w = "plaintiff" THEN "PLAINTIFF_WIN"
                    ELSE IF w = "settlement" THEN "SETTLEMENT"
                    ELSE "DEFENSE_WIN",
        winner |-> IF w \in {"plaintiff", "settlement"} THEN w ELSE "defendant",
        rationale |-> "data.rationale",
        key_factors |-> <<"data.key_factors">>,
        cited_authorities |-> <<>>,
        confidence_score |-> ClampConfidence(conf)]

\* The except block: the text fallback.
FallbackVerdict(r) ==
    LET w == IF r.has_plaintiff /\ r.has_win THEN "plaintiff"
             ELSE IF r.has_settlement THEN "settlement"
             ELSE "defendant"
    IN [outcome |-> IF w = "plaintiff" THEN "PLAINTIFF_WIN"
                    ELSE IF w = "settlement" THEN "SETTLEMENT"
                    ELSE "DEFENSE_WIN",
        winner |-> w,
        rationale |-> "response",
        key_factors |-> <<"Evidence evaluation", "Legal analysis">>,
        cited_authorities |-> <<>>,
        confidence_score |-> 50]

_parse_verdict(r) == IF ParseRaises(r) THEN FallbackVerdict(r) ELSE StructuredVerdict(r)

----------------------------------------------------------------------------
(* The trial protocol of one Monte Carlo trial (montecarlo.py,                *)
(* run_single_simulation).  The outcome o of the external completion service  *)
(* for the trial: o.fail_at is the step whose call raises (0: none, 1 and 2:  *)
(* the openings, 3 and 4: the rebuttals, 5: the judge's evaluation) and       *)
(* o.response is the text the judge's completion returns.                     *)

TrialOutcomes == [fail_at : 0..5, response : JudgeResponses]

\* An outcome stands for all outcomes with the same effect: the judge's text
\* is read only when no step fails.
CanonicalOutcomes ==
    {o \in TrialOutcomes :
        o.fail_at # 0 => o.response = JudgeResponse("invalid", "missing", "",
                                        "missing", 0, TRUE, FALSE, FALSE, FALSE)}

LegalArgument(agent, type) == [agent_name |-> agent, argument_type |-> type]

\* One entry of the call log.
RoleCall(agent, op, input, pargs, dargs, raised) ==
    [agent |-> agent, op |-> op, input |-> input,
     prosecutor_args |-> pargs, defense_args |-> dargs, raised |-> raised]

\* The locals of run_single_simulation's try block before the first call.
TrialStart ==
    [raised |-> FALSE, calls |-> <<>>, prosecutor_args |-> <<>>,
     defense_args |-> <<>>, prosecutor_opening |-> None,
     defense_opening |-> None, verdict |-> None]

\* prosecutor_opening = prosecutor.make_opening_argument(evidence)
\* prosecutor_args.append(prosecutor_opening)
ProsecutorOpening(s, fails) ==
    IF s.raised THEN s
    ELSE LET c == RoleCall("Prosecutor", "make_opening_argument", <<>>, <<>>, <<>>, fails)
             a == LegalArgument("Prosecutor", "opening")
         IN IF fails THEN [s EXCEPT !.raised = TRUE, !.calls = Append(@, c)]
            ELSE [s EXCEPT !.calls = Append(@, c),
                           !.prosecutor_opening = Some(a),
                           !.prosecutor_args = Append(@, a)]

\* defense_opening = defense.make_opening_argument(evidence)
\* defense_args.append(defense_opening)
DefenseOpening(s, fails) ==
    IF s.raised THEN s
    ELSE LET c == RoleCall("Defense", "make_opening_argument", <<>>, <<>>, <<>>, fails)
             a == LegalArgument("Defense", "opening")
         IN IF fails THEN [s EXCEPT !.raised = TRUE, !.calls = Append(@, c)]
            ELSE [s EXCEPT !.calls = Append(@, c),
                           !.defense_opening = Some(a),
                           !.defense_args = Append(@, a)]

\* The argument the prosecutor's rebuttal is given: defense_opening.
ProsecutorRebuttalInput(s) == s.defense_opening

\* prosecutor_rebuttal = prosecutor.make_rebuttal(defense_opening, evidence)
\* prosecutor_args.append(prosecutor_rebuttal)
ProsecutorRebuttal(s, fails) ==
    IF s.raised THEN s
    ELSE LET c == RoleCall("Prosecutor", "make_rebuttal", ProsecutorRebuttalInput(s),
                           <<>>, <<>>, fails)
             a == LegalArgument("Prosecutor", "rebuttal")
         IN IF fails THEN [s EXCEPT !.raised = TRUE, !.calls = Append(@, c)]
            ELSE [s EXCEPT !.calls = Append(@, c),
                           !.prosecutor_args = Append(@, a)]

\* The plaintiff's latest argument (its rebuttal, once made).
DefenseRebuttalInputWrong(s) == <<s.prosecutor_args[Len(s.prosecutor_args)]>>
\* The argument the defense's rebuttal is given: prosecutor_opening.
DefenseRebuttalInput(s) == s.prosecutor_opening

\* defense_rebuttal = defense.make_rebuttal(prosecutor_opening, evidence)
\* defense_args.append(defense_rebuttal)
DefenseRebuttal(s, fails) ==
    IF s.raised THEN s
    ELSE LET c == RoleCall("Defense", "make_rebuttal", DefenseRebuttalInput(s),
                           <<>>, <<>>, fails)
             a == LegalArgument("Defense", "rebuttal")
         IN IF fails THEN [s EXCEPT !.raised = TRUE, !.calls = Append(@, c)]
            ELSE [s EXCEPT !.calls = Append(@, c),
                           !.defense_args = Append(@, a)]

\* verdict = judge.evaluate_case(prosecutor_args, defense_args, evidence)
JudgeEvaluation(s, fails, response) ==
    IF s.raised THEN s
    ELSE LET c == RoleCall("Judge", "evaluate_case", <<>>, s.prosecutor_args,
                           s.defense_args, fails)
         IN IF fails THEN [s EXCEPT !.raised = TRUE, !.calls = Append(@, c)]
            ELSE [s EXCEPT !.calls = Append(@, c),
                           !.verdict = Some(_parse_verdict(response))]

\* The five calls of the try block, in the order of the code.
TrialProceedings(o) ==
    LET s1 == ProsecutorOpening(TrialStart, o.fail_at = 1)
        s2 == DefenseOpening(s1, o.fail_at = 2)
        s3 == ProsecutorRebuttal(s2, o.fail_at = 3)
        s4 == DefenseRebuttal(s3, o.fail_at = 4)
    IN JudgeEvaluation(s4, o.fail_at = 5, o.response)

\* The default verdict of the except block.
ErrorVerdictScore == 0
\* A defence win that carries no sign of the error.
UnmarkedErrorVerdict ==
    [outcome |-> "DEFENSE_WIN",
     winner |-> "defendant",
     rationale |-> "response",
     key_factors |-> <<"Evidence evaluation", "Legal analysis">>,
     cited_authorities |-> <<>>,
     confidence_score |-> 50]
\* Verdict(outcome=DEFENSE_WIN, winner="defendant", ..., confidence_score=0.0)
ErrorVerdict ==
    [outcome |-> "DEFENSE_WIN",
     winner |-> "defendant",
     rationale |-> "Simulation error: ...",
     key_factors |-> <<"Error in simulation">>,
     cited_authorities |-> <<>>,
     confidence_score |-> ErrorVerdictScore]

SimulationResult(simulation_id, variables, verdict, pargs, dargs) ==
    [simulation_id |-> simulation_id, variables |-> variables, verdict |-> verdict,
     prosecutor_arguments |-> pargs, defense_arguments |-> dargs]

\* The except block of run_single_simulation.
ErrorResult(simulation_id, variables) ==
    SimulationResult(simulation_id, variables, ErrorVerdict, <<>>, <<>>)

\* run_single_simulation(simulation_id, variables) on heap h and engine
\* fields base, rstat, rprec: the new heap, the result returned, the role
\* calls made and the variant derived (None when derivation raised).
run_single_simulation(h, base, rstat, rprec, simulation_id, variables, o) ==
    IF IsNone(base)
    THEN \* create_variant_evidence raises ValueError: caught
         [heap |-> h, result |-> ErrorResult(simulation_id, variables),
          calls |-> <<>>, derived |-> None, failed |-> TRUE, raised |-> FALSE]
    ELSE LET cv == create_variant_evidence(h, Val(base), rstat, rprec, variables)
             s == TrialProceedings(o)
         IN [heap |-> cv.heap,
             result |-> IF s.raised
                        THEN ErrorResult(simulation_id, variables)
                        ELSE SimulationResult(simulation_id, variables,
                                 Val(s.verdict), s.prosecutor_args, s.defense_args),
             calls |-> s.calls,
             derived |-> Some(Derivation(cv, variables)),
             failed |-> s.raised,
             raised |-> FALSE]

----------------------------------------------------------------------------
(* Statistical analysis (montecarlo.py, analyze_results). *)

\* sum(1 for r in self.results if r.verdict.winner == side)
Wins(rs, side) == Cardinality({k \in DOMAIN rs : rs[k].verdict.winner = side})

\* A rate or a mean, kept as the fraction num/den.
Frac(n, d) == [num |-> n, den |-> d]

\* The indices of the results whose variables have value v in field f.
Where(rs, f, v) == {k \in DOMAIN rs : rs[k].variables[f] = v}

\* The values field f takes in the results: the keys a defaultdict gets.
Keys(rs, f) == {rs[k].variables[f] : k \in DOMAIN rs}

\* sum(1 for r in <the results at S> if r.verdict.winner == side)
WinsIn(rs, S, side) == Cardinality({k \in S : rs[k].verdict.winner = side})

RECURSIVE SumConfidence(_, _)
\* The sum of the confidence scores of the results at the indices S.
SumConfidence(rs, S) ==
    IF S = {} THEN 0
    ELSE LET k == CHOOSE x \in S : TRUE
         IN rs[k].verdict.confidence_score + SumConfidence(rs, S \ {k})

\* _analyze_strategy_performance: per strategy of each party its wins, its
\* total, win_rate and avg_confidence; per temperament the plaintiff wins,
\* every other verdict as wins_d, and the two rates.
_analyze_strategy_performance(rs) ==
    LET Party(f, side) ==
            [st \in Keys(rs, f) |->
                LET S == Where(rs, f, st) IN
                [wins |-> WinsIn(rs, S, side),
                 total |-> Cardinality(S),
                 win_rate |-> Frac(WinsIn(rs, S, side), Cardinality(S)),
                 avg_confidence |-> Frac(SumConfidence(rs, S), Cardinality(S))]]
    IN [prosecutor |-> Party("prosecutor_strategy", "plaintiff"),
        defense |-> Party("defense_strategy", "defendant"),
        judge |->
            [t \in Keys(rs, "judge_temperament") |->
                LET S == Where(rs, "judge_temperament", t)
                    wins_p == WinsIn(rs, S, "plaintiff")
                IN [wins_p |-> wins_p,
                    wins_d |-> Cardinality(S) - wins_p,
                    total |-> Cardinality(S),
                    plaintiff_rate |-> Frac(wins_p, Cardinality(S)),
                    defense_rate |-> Frac(Cardinality(S) - wins_p, Cardinality(S))]]]

\* _analyze_factor_impact: the plaintiff's win rate in each group of results
\* that is not empty.
_analyze_factor_impact(rs) ==
    LET groups ==
            [short_departure_time |->
                {k \in DOMAIN rs : rs[k].variables.time_since_departure <= 3},
             long_departure_time |->
                {k \in DOMAIN rs : rs[k].variables.time_since_departure > 6},
             direct_competitor |-> Where(rs, "competitor_relationship", "direct"),
             no_competition |-> Where(rs, "competitor_relationship", "none"),
             hostile_defendant |-> Where(rs, "defendant_cooperation", "hostile"),
             cooperative_defendant |->
                Where(rs, "defendant_cooperation", "cooperative")]
    IN [g \in {x \in DOMAIN groups : groups[x] # {}} |->
            Frac(WinsIn(rs, groups[g], "plaintiff"), Cardinality(groups[g]))]

\* _analyze_venue_impact
_analyze_venue_impact(rs) ==
    [venue \in Keys(rs, "venue_bias") |->
        LET S == Where(rs, "venue_bias", venue)
            w == WinsIn(rs, S, "plaintiff")
        IN [total |-> Cardinality(S),
            plaintiff_wins |-> w,
            plaintiff_win_rate |-> Frac(w, Cardinality(S)),
            defense_win_rate |-> Frac(Cardinality(S) - w, Cardinality(S))]]

\* _analyze_evidence_impact
_analyze_evidence_impact(rs) ==
    [strength \in Keys(rs, "evidence_strength") |->
        LET S == Where(rs, "evidence_strength", strength)
            w == WinsIn(rs, S, "plaintiff")
        IN [total |-> Cardinality(S),
            plaintiff_wins |-> w,
            avg_confidence |-> Frac(SumConfidence(rs, S), Cardinality(S)),
            plaintiff_win_rate |-> Frac(w, Cardinality(S))]]

\* _analyze_nda_impact: the two win rates that exist, and their difference
\* a/b - c/d when both do.
_analyze_nda_impact(rs) ==
    LET with_nda == Where(rs, "has_nda", TRUE)
        without_nda == Where(rs, "has_nda", FALSE)
        a == WinsIn(rs, with_nda, "plaintiff")
        b == Cardinality(with_nda)
        c == WinsIn(rs, without_nda, "plaintiff")
        d == Cardinality(without_nda)
        present == (IF b > 0 THEN {"with_nda_win_rate"} ELSE {})
                   \cup (IF d > 0 THEN {"without_nda_win_rate"} ELSE {})
                   \cup (IF b > 0 /\ d > 0 THEN {"nda_impact_delta"} ELSE {})
    IN [key \in present |->
            IF key = "with_nda_win_rate" THEN Frac(a, b)
            ELSE IF key = "without_nda_win_rate" THEN Frac(c, d)
            ELSE Frac(a * d - c * b, b * d)]

\* The key of _find_best_config:
\* (1 if r.verdict.winner == for_side else 0) * r.verdict.confidence_score
BestKey(r, for_side) ==
    (IF r.verdict.winner = for_side THEN 1 ELSE 0) * r.verdict.confidence_score

\* max(): whether a later item replaces the best one found so far.
ReplacesOnTie(new, old) == new >= old
Replaces(new, old) == new > old

RECURSIVE BestFrom(_, _, _, _)
\* max(self.results, key=...): the scan from index k on, best being the index
\* of the best item so far.
BestFrom(rs, for_side, k, best) ==
    IF k > Len(rs) THEN best
    ELSE BestFrom(rs, for_side, k + 1,
                  IF Replaces(BestKey(rs[k], for_side), BestKey(rs[best], for_side))
                  THEN k ELSE best)

\* _find_best_config(for_side) on a non-empty result list.
_find_best_config(rs, for_side) == rs[BestFrom(rs, for_side, 2, 1)].variables

\* analyze_results on a non-empty result list (the standard deviation and the
\* execution times are left out).
analyze_results(rs) ==
    [total_simulations |-> Len(rs),
     plaintiff_wins |-> Wins(rs, "plaintiff"),
     defense_wins |-> Wins(rs, "defendant"),
     average_confidence |->
        Frac(SumSeq([k \in DOMAIN rs |-> rs[k].verdict.confidence_score]), Len(rs)),
     strategy_performance |-> _analyze_strategy_performance(rs),
     factor_impact |-> _analyze_factor_impact(rs),
     best_plaintiff_config |-> _find_best_config(rs, "plaintiff"),
     best_defense_config |-> _find_best_config(rs, "defendant"),
     venue_impact |-> _analyze_venue_impact(rs),
     evidence_impact |-> _analyze_evidence_impact(rs),
     nda_impact |-> _analyze_nda_impact(rs)]

----------------------------------------------------------------------------
(* The engine: EnhancedMonteCarloSimulation (montecarlo.py). *)

\* What the state keeps of one call of run_single_simulation: its arguments,
\* whether a step inside it raised, whether the call itself raised, and the
\* result it returned.
TrialRecord(simulation_id, variables, t) ==
    [simulation_id |-> simulation_id, variables |-> variables,
     failed |-> t.failed, raised |-> t.raised, result |-> t.result]

\* A loop that keeps only the results of trials that completed.
AppendSucceeded(rs, result) ==
    IF result.prosecutor_arguments = <<>> THEN rs ELSE Append(rs, result)
\* self.results.append(result) in the loop of run_simulations.
AppendResult(rs, result) == Append(rs, result)

EngineInit ==
    /\ heap = << <<>>, <<>> >>       \* researched_statutes = [], researched_precedents = []
    /\ base_evidence = None
    /\ researched_statutes = 1
    /\ researched_precedents = 2
    /\ results = <<>>
    /\ analysis = None
    /\ pc = "idle"
    /\ n_simulations = 0
    /\ randomization_config = [fixed_strategies |-> FALSE, fixed_evidence |-> FALSE]
    /\ ret = [op |-> "__init__", raised |-> FALSE, value |-> None]
    /\ calls = <<>>
    /\ variants = <<>>
    /\ researched = None
    /\ i = 0
    /\ trial = None
    /\ trials = 0

\* research_case(): the Research collaborator's packet becomes the base
\* evidence; researched_statutes and researched_precedents are its lists.
research_case(out) ==
    LET g == gather_evidence(heap, out) IN
    /\ heap' = g.heap
    /\ base_evidence' = Some(g.evidence)
    /\ researched_statutes' = g.evidence.statutes
    /\ researched_precedents' = g.evidence.precedents
    /\ researched' = Some(Content(g.heap, g.evidence))
    /\ variants' = <<>>

\* research_case(), called by the user of the engine.
ResearchCase ==
    /\ pc = "idle"
    /\ IsNone(base_evidence)
    /\ \E out \in ResearchOutputs : research_case(out)
    /\ ret' = [op |-> "research_case", raised |-> FALSE, value |-> None]
    /\ calls' = <<>>
    /\ trial' = None
    /\ UNCHANGED <<results, analysis, pc, n_simulations, randomization_config,
                   i, trials>>
    /\ UNCHANGED nonEngineVars

\* create_variant_evidence(variables), called by the user of the engine.
CreateVariant ==
    /\ pc = "idle"
    /\ trials < MaxTrials
    /\ trials' = trials + 1
    /\ \E d \in SampleDraws :
          IF IsNone(base_evidence)
          THEN /\ ret' = [op |-> "create_variant_evidence", raised |-> TRUE,
                          value |-> None]
               /\ UNCHANGED <<heap, variants>>
          ELSE LET cv == create_variant_evidence(heap, Val(base_evidence),
                              researched_statutes, researched_precedents, d) IN
               /\ heap' = cv.heap
               /\ variants' = Append(variants, Derivation(cv, d))
               /\ ret' = [op |-> "create_variant_evidence", raised |-> FALSE,
                          value |-> Some(cv.variant)]
    /\ calls' = <<>>
    /\ trial' = None
    /\ UNCHANGED <<base_evidence, researched_statutes, researched_precedents,
                   results, analysis, pc, n_simulations, randomization_config,
                   researched, i>>
    /\ UNCHANGED nonEngineVars

\* The engine's state after a call of run_single_simulation by its user: t
\* is what the call did (the result is returned, not appended to
\* self.results).
SingleSimulationCall(simulation_id, variables, t) ==
    /\ pc = "idle"
    /\ trials < MaxTrials
    /\ trials' = trials + 1
    /\ heap' = t.heap
    /\ calls' = t.calls
    /\ variants' = variants \o t.derived
    /\ trial' = Some(TrialRecord(simulation_id, variables, t))
    /\ ret' = [op |-> "run_single_simulation", raised |-> t.raised,
               value |-> IF t.raised THEN None ELSE Some(t.result)]
    /\ UNCHANGED <<base_evidence, researched_statutes, researched_precedents,
                   results, analysis, pc, n_simulations, randomization_config,
                   researched, i>>

\* run_single_simulation(1, variables), called by the user of the engine.
RunSingleSimulation ==
    /\ \E d \in SampleDraws, o \in CanonicalOutcomes :
          SingleSimulationCall(1, d,
              run_single_simulation(heap, base_evidence, researched_statutes,
                                    researched_precedents, 1, d, o))
    /\ UNCHANGED nonEngineVars

\* Research on every run.
AlwaysResearch(base) == TRUE

\* `if not self.base_evidence`: a CaseEvidence object is truthy.
NeedsResearch(base) == IsNone(base)

\* run_simulations(n, randomization_config) up to the for loop: research
\* when there is no base evidence yet, then self.results = [].
RunSimulationsBegin(n, cfg) ==
    /\ pc = "idle"
    /\ n_simulations' = n
    /\ randomization_config' = cfg
    /\ IF NeedsResearch(base_evidence)
       THEN \E out \in ResearchOutputs : research_case(out)
       ELSE UNCHANGED <<heap, base_evidence, researched_statutes,
                        researched_precedents, researched, variants>>
    /\ results' = <<>>
    /\ i' = 1
    /\ pc' = "loop"
    /\ ret' = [op |-> "run_simulations", raised |-> FALSE, value |-> None]
    /\ calls' = <<>>
    /\ trial' = None
    /\ UNCHANGED <<analysis, trials>>

RunSimulationsStart ==
    /\ \E n \in 0..(MaxTrials - trials), cfg \in RandomizationConfigs :
          RunSimulationsBegin(n, cfg)
    /\ UNCHANGED nonEngineVars

\* The variables of iteration i of the for loop, d being the draws.
LoopVariables(d) ==
    randomize(DefaultVariables, randomization_config.fixed_strategies,
              randomization_config.fixed_evidence, d)

\* One iteration of the for loop whose call of self.run_single_simulation
\* returned: t is what the call did; its result is appended.
LoopIteration(variables, t) ==
    /\ pc = "loop"
    /\ i <= n_simulations
    /\ trials' = trials + 1
    /\ heap' = t.heap
    /\ calls' = t.calls
    /\ variants' = variants \o t.derived
    /\ trial' = Some(TrialRecord(i, variables, t))
    /\ results' = AppendResult(results, t.result)
    /\ i' = i + 1
    /\ UNCHANGED <<base_evidence, researched_statutes, researched_precedents,
                   analysis, pc, n_simulations, randomization_config, ret,
                   researched>>

RunSimulationsTrial ==
    /\ \E d \in SampleDraws, o \in CanonicalOutcomes :
          LoopIteration(LoopVariables(d),
              run_single_simulation(heap, base_evidence, researched_statutes,
                                    researched_precedents, i, LoopVariables(d), o))
    /\ UNCHANGED nonEngineVars

\* After the loop: self.analysis = self.analyze_results(), the summary is
\* printed and the analysis returned; analyze_results raises ValueError on an
\* empty result list.
RunSimulationsEnd ==
    /\ pc = "loop"
    /\ i > n_simulations
    /\ pc' = "idle"
    /\ IF results = <<>>
       THEN /\ ret' = [op |-> "run_simulations", raised |-> TRUE, value |-> None]
            /\ UNCHANGED analysis
       ELSE /\ analysis' = Some(analyze_results(results))
            /\ ret' = [op |-> "run_simulations", raised |-> FALSE,
                       value |-> Some(analyze_results(results))]
    /\ UNCHANGED <<heap, base_evidence, researched_statutes, researched_precedents,
                   results, n_simulations, randomization_config, calls, variants,
                   researched, i, trial, trials>>

RunSimulationsFinish ==
    /\ RunSimulationsEnd
    /\ UNCHANGED nonEngineVars

\* self.results after analyze_results has run: the analysis only reads the
\* list and its items (its accumulators are local dictionaries).
ReversedResults(rs) == [k \in DOMAIN rs |-> rs[Len(rs) + 1 - k]]
ResultsAfterAnalysis(rs) == rs

\* analyze_results(), called by the user of the engine: the analysis is
\* returned (it is run_simulations that stores it in self.analysis).
AnalyzeResults ==
    /\ pc = "idle"
    /\ ret' = IF results = <<>>
              THEN [op |-> "analyze_results", raised |-> TRUE, value |-> None]
              ELSE [op |-> "analyze_results", raised |-> FALSE,
                    value |-> Some(analyze_results(results))]
    /\ results' = ResultsAfterAnalysis(results)
    /\ UNCHANGED <<heap, base_evidence, researched_statutes, researched_precedents,
                   analysis, pc, n_simulations, randomization_config, calls,
                   variants, researched, i, trial, trials>>
    /\ UNCHANGED nonEngineVars

----------------------------------------------------------------------------
(* The judge's evaluation of one completion text, and the verdict a failed  *)
(* trial gets instead.                                                      *)

VerdictIdle ==
    /\ judge_response = None
    /\ judge_verdict = None
    /\ judge_path = "none"

\* JudgeAgent.evaluate_case: the completion text is parsed into the verdict.
EvaluateCase ==
    /\ ~IsNone(judge_response)
    /\ IsNone(judge_verdict)
    /\ judge_verdict' = Some(_parse_verdict(Val(judge_response)))
    /\ judge_path' = IF ParseRaises(Val(judge_response)) THEN "fallback"
                     ELSE "structured"
    /\ UNCHANGED <<judge_response, engineVars, simVars, mongoVars, auxVars>>

\* A step of the trial raised: the except block of run_single_simulation
\* makes the verdict.
TrialRaised ==
    /\ ~IsNone(judge_response)
    /\ IsNone(judge_verdict)
    /\ judge_verdict' = Some(ErrorVerdict)
    /\ judge_path' = "error"
    /\ UNCHANGED <<judge_response, engineVars, simVars, mongoVars, auxVars>>

----------------------------------------------------------------------------
(* LegalSimulation (simulation.py): one trial object, prepared and run by   *)
(* its user.                                                                *)

\* Calls of run_trial over the life of one LegalSimulation.
MaxRunTrialCalls == 2

\* LegalSimulation.__init__
SimInit ==
    /\ sim_case_evidence = None
    /\ sim_arguments = [prosecutor |-> <<>>, defense |-> <<>>]
    /\ sim_verdict = None
    /\ sim_calls = <<>>
    /\ sim_ret = [op |-> "__init__", raised |-> FALSE, value |-> None]
    /\ sim_runs = 0

\* The outcome of the completion service for one run_trial: fail_at as in a
\* Monte Carlo trial, and 6 when the verdict is stored but printing it raises
\* (a rationale that cannot be sliced).
SimOutcomes ==
    {o \in [fail_at : 0..6, response : JudgeResponses] :
        o.fail_at \in 1..5 =>
            o.response = JudgeResponse("invalid", "missing", "", "missing", 0,
                                       TRUE, FALSE, FALSE, FALSE)}

\* One call of a role's argument method inside run_trial: its argument is
\* appended to self.arguments[side] unless the call raises.
ArgumentStep(s, fails, c, side, a) ==
    IF s.raised THEN s
    ELSE IF fails THEN [s EXCEPT !.raised = TRUE, !.calls = Append(@, c)]
    ELSE [s EXCEPT !.calls = Append(@, c), !.arguments[side] = Append(@, a)]

\* LegalSimulation.run_trial(include_rebuttals) after the case_evidence check,
\* on self.arguments = arguments and self.verdict = verdict.
run_trial(arguments, verdict, include_rebuttals, o) ==
    LET prosecutor_opening == LegalArgument("Prosecutor", "opening")
        defense_opening == LegalArgument("Defense", "opening")
        s0 == [raised |-> FALSE, calls |-> <<>>, arguments |-> arguments,
               verdict |-> verdict]
        s1 == ArgumentStep(s0, o.fail_at = 1,
                  RoleCall("Prosecutor", "make_opening_argument", <<>>, <<>>, <<>>,
                           o.fail_at = 1),
                  "prosecutor", prosecutor_opening)
        s2 == ArgumentStep(s1, o.fail_at = 2,
                  RoleCall("Defense", "make_opening_argument", <<>>, <<>>, <<>>,
                           o.fail_at = 2),
                  "defense", defense_opening)
        s3 == IF ~include_rebuttals THEN s2
              ELSE ArgumentStep(s2, o.fail_at = 3,
                      RoleCall("Prosecutor", "make_rebuttal", Some(defense_opening),
                               <<>>, <<>>, o.fail_at = 3),
                      "prosecutor", LegalArgument("Prosecutor", "rebuttal"))
        s4 == IF ~include_rebuttals THEN s3
              ELSE ArgumentStep(s3, o.fail_at = 4,
                      RoleCall("Defense", "make_rebuttal", Some(prosecutor_opening),
                               <<>>, <<>>, o.fail_at = 4),
                      "defense", LegalArgument("Defense", "rebuttal"))
        c5 == RoleCall("Judge", "evaluate_case", <<>>, s4.arguments.prosecutor,
                       s4.arguments.defense, o.fail_at = 5)
        s5 == IF s4.raised THEN s4
              ELSE IF o.fail_at = 5
              THEN [s4 EXCEPT !.raised = TRUE, !.calls = Append(@, c5)]
              ELSE [s4 EXCEPT !.calls = Append(@, c5),
                              !.verdict = Some(_parse_verdict(o.response))]
    IN IF ~s5.raised /\ o.fail_at = 6 THEN [s5 EXCEPT !.raised = TRUE] ELSE s5

\* prepare_case(case_description, jurisdiction)
PrepareCase ==
    /\ \E out \in ResearchOutputs : sim_case_evidence' = Some(out)
    /\ sim_ret' = [op |-> "prepare_case", raised |-> FALSE, value |-> None]
    /\ UNCHANGED <<sim_arguments, sim_verdict, sim_calls, sim_runs>>
    /\ UNCHANGED <<engineVars, verdictVars, mongoVars, auxVars>>

\* run_trial(include_rebuttals)
RunTrial ==
    /\ sim_runs < MaxRunTrialCalls
    /\ sim_runs' = sim_runs + 1
    /\ IF IsNone(sim_case_evidence)
       THEN /\ sim_ret' = [op |-> "run_trial", raised |-> TRUE, value |-> None]
            /\ sim_calls' = <<>>
            /\ UNCHANGED <<sim_arguments, sim_verdict>>
       ELSE \E include_rebuttals \in BOOLEAN, o \in SimOutcomes :
               LET s == run_trial(sim_arguments, sim_verdict, include_rebuttals, o) IN
               /\ sim_arguments' = s.arguments
               /\ sim_verdict' = s.verdict
               /\ sim_calls' = s.calls
               /\ sim_ret' = [op |-> "run_trial", raised |-> s.raised,
                              value |-> IF s.raised THEN None ELSE s.verdict]
    /\ UNCHANGED sim_case_evidence
    /\ UNCHANGED <<engineVars, verdictVars, mongoVars, auxVars>>

----------------------------------------------------------------------------
(* MongoEnhancedMonteCarloSimulation (montecarlo_mongodb.py): the engine    *)
(* with persistence.  db_manager is an object throughout (truthy).          *)

\* Monte Carlo documents created over the life of one engine.
MaxDocuments == 2

MongoIdle ==
    /\ auto_save = FALSE
    /\ is_monte_carlo_batch = FALSE
    /\ saved_simulation_ids = <<>>
    /\ monte_carlo_doc_id = None
    /\ research_collection = <<>>
    /\ trial_format = "none"

\* __init__(..., auto_save): the constructor's argument is the caller's.
MongoInit ==
    /\ auto_save \in BOOLEAN
    /\ is_monte_carlo_batch = FALSE
    /\ saved_simulation_ids = <<>>
    /\ monte_carlo_doc_id = None
    /\ research_collection = <<>>
    /\ trial_format = "none"

\* The draws and completion outcomes the persistence model explores: a draw
\* that appends to the evidence and one that does not, a trial that completes
\* on either parsing path and one that fails at a rebuttal.
MongoDraws ==
    {d \in SampleDraws : d.defendant_cooperation \in {"hostile", "cooperative"}}

MongoOutcomes ==
    {o \in CanonicalOutcomes :
        /\ o.fail_at \in {0, 3}
        /\ o.fail_at = 0 => o.response.winner.s \in {"plaintiff", ""}}

\* Whether the engine object has an attribute `evidence`: none is assigned
\* anywhere, so reading self.evidence raises AttributeError.
HasEvidenceAttribute == FALSE

\* is_single_sim and self.auto_save and self.db_manager
UsesEnhancedTrial(simulation_id, batch, autosave) ==
    simulation_id = 1 /\ ~batch /\ autosave

\* The override of run_single_simulation up to its save step.  The enhanced
\* branch reads self.evidence before any role is called, outside any try.
mongo_run_single_simulation(h, base, rstat, rprec, simulation_id, variables, o, batch, autosave) ==
    IF UsesEnhancedTrial(simulation_id, batch, autosave)
    THEN [heap |-> h, result |-> [error |-> "AttributeError"], calls |-> <<>>,
          derived |-> None, failed |-> TRUE, raised |-> ~HasEvidenceAttribute,
          format |-> "enhanced"]
    ELSE LET t == run_single_simulation(h, base, rstat, rprec, simulation_id,
                                        variables, o)
         IN [heap |-> t.heap, result |-> t.result, calls |-> t.calls,
             derived |-> t.derived, failed |-> t.failed, raised |-> t.raised,
             format |-> "standard"]

\* The save step of a trial whose conversion succeeds.
SaveSimulationConverted(ids, autosave, db_ok) ==
    IF autosave /\ db_ok THEN Append(ids, Len(ids) + 1) ELSE ids

\* The save step after a standard trial: _convert_to_case_simulation reads
\* self.evidence inside the try, so the save is abandoned before
\* save_simulation is called.
SaveSimulation(ids, autosave, db_ok) ==
    IF autosave /\ HasEvidenceAttribute /\ db_ok
    THEN Append(ids, Len(ids) + 1)
    ELSE ids

\* run_single_simulation(simulation_id, variables), called by the user of
\* the engine.
MongoRunSingleSimulation ==
    /\ \E simulation_id \in 1..2, d \in MongoDraws, o \in MongoOutcomes,
          db_ok \in BOOLEAN :
          LET t == mongo_run_single_simulation(heap, base_evidence,
                       researched_statutes, researched_precedents, simulation_id,
                       d, o, is_monte_carlo_batch, auto_save)
          IN /\ SingleSimulationCall(simulation_id, d, t)
             /\ trial_format' = t.format
             /\ saved_simulation_ids' =
                   IF t.raised THEN saved_simulation_ids
                   ELSE SaveSimulation(saved_simulation_ids, auto_save, db_ok)
    /\ UNCHANGED <<auto_save, is_monte_carlo_batch, monte_carlo_doc_id,
                   research_collection>>
    /\ UNCHANGED <<verdictVars, simVars, auxVars>>

\* run_simulations up to the loop: the batch flag is set for n > 1, the
\* Monte Carlo document is created (a failure is caught), then the engine's
\* run_simulations starts.
MongoRunStart(N) ==
    /\ Len(research_collection) < MaxDocuments
    /\ \E n \in N, cfg \in RandomizationConfigs :
          /\ RunSimulationsBegin(n, cfg)
          /\ is_monte_carlo_batch' = (is_monte_carlo_batch \/ n > 1)
          /\ \E db_ok \in BOOLEAN :
                IF auto_save /\ db_ok
                THEN /\ research_collection' =
                           Append(research_collection,
                                  [planned_simulations |-> n, simulation_ids |-> <<>>,
                                   status |-> "ACTIVE"])
                     /\ monte_carlo_doc_id' = Some(Len(research_collection) + 1)
                ELSE UNCHANGED <<research_collection, monte_carlo_doc_id>>
    /\ trial_format' = "none"
    /\ UNCHANGED <<auto_save, saved_simulation_ids>>
    /\ UNCHANGED <<verdictVars, simVars, auxVars>>

MongoRunSimulationsStart == MongoRunStart(0..(MaxTrials - trials))

\* One iteration of the loop: self.run_single_simulation is the override.
\* D and O are the draws and the completion outcomes explored.
MongoTrialStep(D, O) ==
    /\ pc = "loop"
    /\ i <= n_simulations
    /\ \E d \in D, o \in O, db_ok \in BOOLEAN :
          LET variables == LoopVariables(d)
              t == mongo_run_single_simulation(heap, base_evidence,
                       researched_statutes, researched_precedents, i, variables,
                       o, is_monte_carlo_batch, auto_save)
          IN /\ trial_format' = t.format
             /\ IF t.raised
                THEN \* the exception leaves the loop and run_simulations
                     /\ pc' = "idle"
                     /\ ret' = [op |-> "run_simulations", raised |-> TRUE,
                                value |-> None]
                     /\ trial' = Some(TrialRecord(i, variables, t))
                     /\ calls' = t.calls
                     /\ trials' = trials + 1
                     /\ UNCHANGED <<heap, base_evidence, researched_statutes,
                                    researched_precedents, results, analysis,
                                    n_simulations, randomization_config, variants,
                                    researched, i, saved_simulation_ids>>
                ELSE /\ LoopIteration(variables, t)
                     /\ saved_simulation_ids' =
                           SaveSimulation(saved_simulation_ids, auto_save, db_ok)
    /\ UNCHANGED <<auto_save, is_monte_carlo_batch, monte_carlo_doc_id,
                   research_collection>>
    /\ UNCHANGED <<verdictVars, simVars, auxVars>>

MongoRunSimulationsTrial == MongoTrialStep(MongoDraws, MongoOutcomes)

\* Several runs on one engine: batches of two trials, one draw, and a trial
\* that completes or fails at a rebuttal.
MaxLinkedTrials == 4

LinkedRunStart == MongoRunStart({n \in {0, 2} : trials + n <= MaxLinkedTrials})

LinkedDraws == {d \in MongoDraws : d.defendant_cooperation = "hostile"}

LinkedOutcomes == {o \in MongoOutcomes : o.fail_at = 3 \/ o.response.winner.s = "plaintiff"}

LinkedRunTrial == MongoTrialStep(LinkedDraws, LinkedOutcomes)

\* _update_monte_carlo_document(analysis): the stored document gets the saved
\* ids and the status COMPLETED; a failure of the database is caught.
UpdatedCollection(docs, doc_id, ids, autosave, db_ok) ==
    IF autosave /\ ~IsNone(doc_id) /\ db_ok
    THEN [docs EXCEPT ![Val(doc_id)] =
              [@ EXCEPT !.simulation_ids = ids, !.status = "COMPLETED"]]
    ELSE docs

\* After the loop: the engine's analysis; then the document is updated and
\* the batch flag cleared.  When analyze_results raises, neither happens.
MongoRunSimulationsFinish ==
    /\ RunSimulationsEnd
    /\ IF results = <<>>
       THEN UNCHANGED <<research_collection, is_monte_carlo_batch>>
       ELSE /\ \E db_ok \in BOOLEAN :
                  research_collection' =
                      UpdatedCollection(research_collection, monte_carlo_doc_id,
                                        saved_simulation_ids, auto_save, db_ok)
            /\ is_monte_carlo_batch' = FALSE
    /\ UNCHANGED <<auto_save, saved_simulation_ids, monte_carlo_doc_id, trial_format>>
    /\ UNCHANGED <<verdictVars, simVars, auxVars>>

----------------------------------------------------------------------------
(* The agents' argument parsing (simulation.py).

   _parse_json_argument hands the completion text to two helpers,
   repair_json and extract_partial_json.  What a helper does with a text is
   part of the description of the text:
     repair       "dict"   repair_json returns a JSON object
                  "other"  repair_json returns a JSON value that is no object
                  "raises" repair_json raises
     partial      "dict"   extract_partial_json returns a non-empty dict
                  "empty"  extract_partial_json returns an empty dict or None
                  "raises" extract_partial_json raises
   and, for a returned dict, which value it holds under 'main_argument'
   ("missing": no such key) and whether its 'key_points' can be sliced. *)

\* A value of the field main_argument.
Str(text) == [kind |-> "str", s |-> text]

JsonNull == [kind |-> "None"]

\* The value a dict holds under 'main_argument'; "missing" when it has none.
MainArgumentValues == {"missing", "text", "empty", "null"}

\* dict.get('main_argument', default).
GetMainArgument(held, default) ==
    CASE held = "missing" -> default
      [] held = "text"    -> Str("the main argument")
      [] held = "empty"   -> Str("")
      [] held = "null"    -> JsonNull

ResponseTexts == {"completion text", ""}

ParseAgents == {"Prosecutor", "Defense"}

\* The stages' outcomes on one completion text.  A text repair_json accepts
\* never reaches extract_partial_json, and the empty text holds no JSON.
ArgumentResponses ==
    { r \in [text : ResponseTexts,
             repair : {"dict", "other", "raises"},
             data_main : MainArgumentValues, data_sliceable : BOOLEAN,
             partial : {"dict", "empty", "raises"},
             partial_main : MainArgumentValues, partial_sliceable : BOOLEAN] :
        /\ r.repair # "dict" => r.data_main = "missing" /\ r.data_sliceable
        /\ r.partial # "dict" => r.partial_main = "missing" /\ r.partial_sliceable
        /\ (r.repair = "dict" /\ r.data_sliceable) => r.partial = "empty"
        /\ r.text = "" => r.repair = "raises" /\ r.partial # "dict" }

\* BaseAgent.repair_json: strict JSON, then the text without its fences.
repair_json(r) ==
    [raised |-> r.repair = "raises", is_dict |-> r.repair = "dict",
     main_argument |-> r.data_main, sliceable |-> r.data_sliceable]

\* BaseAgent.extract_partial_json: the fields that can be read off the text.
extract_partial_json(r) ==
    [raised |-> r.partial = "raises", truthy |-> r.partial = "dict",
     main_argument |-> r.partial_main, sliceable |-> r.partial_sliceable]

Returned(main) == [raised |-> FALSE, stage |-> main.stage, main_argument |-> main.value]

Raised(at) == [raised |-> TRUE, stage |-> at, main_argument |-> JsonNull]

\* The handler of `except Exception`: it is not itself inside a try.
ParseFallback(r) ==
    LET partial_data == extract_partial_json(r)
    IN  IF partial_data.raised THEN Raised("partial")
        ELSE IF partial_data.truthy
             THEN IF ~partial_data.sliceable THEN Raised("partial")
                  ELSE Returned([stage |-> "partial",
                                 value |-> GetMainArgument(partial_data.main_argument,
                                                           Str(r.text))])
             ELSE Returned([stage |-> "raw", value |-> Str(r.text)])

\* ProsecutorAgent._parse_json_argument and DefenseAgent._parse_json_argument.
_parse_json_argument(r) ==
    LET data == repair_json(r)
    IN  IF data.raised \/ ~data.is_dict \/ ~data.sliceable
        THEN ParseFallback(r)
        ELSE Returned([stage |-> "json",
                       value |-> GetMainArgument(data.main_argument, Str(""))])

ParseIdle ==
    /\ arg_call = None
    /\ arg_result = None

ParseInit ==
    /\ arg_call \in {Some([agent |-> a, response |-> r]) :
                        a \in ParseAgents, r \in ArgumentResponses}
    /\ arg_result = None


ProsecutorParseArgument ==
    /\ arg_call # None
    /\ Val(arg_call).agent = "Prosecutor"
    /\ arg_result = None
    /\ arg_result' = Some(_parse_json_argument(Val(arg_call).response))
    /\ UNCHANGED <<arg_call, engineVars, verdictVars, simVars, mongoVars, entryVars,
                   fileVars, variablesVars, peripheralVars>>

DefenseParseArgument ==
    /\ arg_call # None
    /\ Val(arg_call).agent = "Defense"
    /\ arg_result = None
    /\ arg_result' = Some(_parse_json_argument(Val(arg_call).response))
    /\ UNCHANGED <<arg_call, engineVars, verdictVars, simVars, mongoVars, entryVars,
                   fileVars, variablesVars, peripheralVars>>

----------------------------------------------------------------------------
(* Construction of the engine with persistence (montecarlo_mongodb.py,
   mongodb_manager.py) and the entry point /api/run-simulation
   (backend/app.py). *)

\* The environment of MongoDBManager(): "ok" when the connection string is
\* set and the server answers the ping.
Connections == {"ok", "no_connection_string", "unreachable"}

\* MongoDBManager.__init__() with no argument.
MongoDBManager(conn) ==
    CASE conn = "no_connection_string" ->
             [raised |-> TRUE, error |-> "ValueError", value |-> None]
      [] conn = "unreachable" ->
             [raised |-> TRUE, error |-> "ConnectionFailure", value |-> None]
      [] conn = "ok" ->
             [raised |-> FALSE, error |-> "", value |-> Some("MongoDBManager")]

Jurisdictions == {"Federal", "California"}

\* MongoEnhancedMonteCarloSimulation.__init__: `db_manager or MongoDBManager()`
\* is evaluated whatever auto_save is.
MongoEngine(conn, jurisdiction, db_manager, autosave) ==
    LET made == IF IsNone(db_manager) THEN MongoDBManager(conn)
                ELSE [raised |-> FALSE, error |-> "", value |-> db_manager]
    IN  [raised |-> made.raised, error |-> made.error,
         base_jurisdiction |-> jurisdiction, db_manager |-> made.value,
         auto_save |-> autosave]

ConstructMongoEngine ==
    /\ \E jurisdiction \in Jurisdictions,
          db_manager \in {None, Some("MongoDBManager")}, autosave \in BOOLEAN :
          constructed' = Some(MongoEngine(db_connection, jurisdiction, db_manager,
                                          autosave))
    /\ UNCHANGED <<db_connection, app_db_manager, api_request, api_response>>
    /\ UNCHANGED <<engineVars, verdictVars, simVars, mongoVars, parseVars, fileVars,
                   variablesVars, peripheralVars>>

\* get_db_manager(): the global is made on first use; a failure is caught and
\* leaves it None.
get_db_manager(global, conn) ==
    IF IsNone(global) THEN MongoDBManager(conn).value ELSE global

\* The limit of the API on the trials of one request.
ApiLimit == 10

\* num_simulations of the requests explored.
RequestSimulations == {0, 1, 2, 3, 11}

Requests ==
    [case_description : BOOLEAN, num_simulations : RequestSimulations]

ErrorResponse(code, text) ==
    [status |-> code, error |-> text, total_simulations |-> 0,
     monte_carlo_doc_id |-> FALSE, trials |-> 0]

\* run_simulation(): the response to one request, db being what
\* get_db_manager() returned and doc_saved whether save_research succeeded;
\* trials is the number of trials that were run to their end for it.
\* The engine is made with db_manager = db and auto_save = True, so a request
\* for one trial takes the enhanced branch of run_single_simulation.
run_simulation(req, db, doc_saved) ==
    IF ~req.case_description
    THEN ErrorResponse(400, "case_description is required")
    ELSE IF IsNone(db)
    THEN ErrorResponse(500, "Database connection failed")
    ELSE IF req.num_simulations = 1
    THEN IF UsesEnhancedTrial(1, FALSE, TRUE) /\ ~HasEvidenceAttribute
         THEN ErrorResponse(500, "AttributeError")
         ELSE [status |-> 200, error |-> "", total_simulations |-> 1,
               monte_carlo_doc_id |-> FALSE, trials |-> 1]
    ELSE IF Min2(req.num_simulations, ApiLimit) = 0
    THEN ErrorResponse(500, "No simulation results to analyze")
    ELSE [status |-> 200, error |-> "",
          total_simulations |-> Min2(req.num_simulations, ApiLimit),
          monte_carlo_doc_id |-> doc_saved,
          trials |-> Min2(req.num_simulations, ApiLimit)]

RunSimulationRequest ==
    /\ \E req \in Requests, doc_saved \in BOOLEAN :
          LET db == IF req.case_description
                    THEN get_db_manager(app_db_manager, db_connection)
                    ELSE app_db_manager
          IN /\ app_db_manager' = db
             /\ api_request' = Some(req)
             /\ api_response' = Some(run_simulation(req, db, doc_saved))
    /\ UNCHANGED <<db_connection, constructed>>
    /\ UNCHANGED <<engineVars, verdictVars, simVars, mongoVars, parseVars, fileVars,
                   variablesVars, peripheralVars>>

EntryIdle ==
    /\ db_connection = "ok"
    /\ app_db_manager = None
    /\ constructed = None
    /\ api_request = None
    /\ api_response = None

EntryInit ==
    /\ db_connection \in Connections
    /\ app_db_manager = None
    /\ constructed = None
    /\ api_request = None
    /\ api_response = None

----------------------------------------------------------------------------
(* Saving the results (montecarlo.py, save_results), and the assignments to
   self.results its callers make before it. *)

\* The keys of winner_counts.
WinnerCountKeys == {"plaintiff", "defendant"}

\* The else branch of save_results: winner_counts[r.verdict.winner] += 1
\* raises KeyError for a winner that is no key of winner_counts.
SummaryRaises(rs) ==
    \E k \in DOMAIN rs : rs[k].verdict.winner \notin WinnerCountKeys

\* save_results(filepath): what it writes, or that it raised before writing.
save_results(rs, an) ==
    IF ~IsNone(an)
    THEN [raised |-> FALSE,
          output |-> [simulations |-> Len(rs), section |-> "analysis",
                      total_simulations |-> Val(an).total_simulations,
                      plaintiff_wins |-> Val(an).plaintiff_wins,
                      defense_wins |-> Val(an).defense_wins]]
    ELSE IF rs = <<>>
    THEN [raised |-> FALSE,
          output |-> [simulations |-> 0, section |-> "none",
                      total_simulations |-> 0, plaintiff_wins |-> 0,
                      defense_wins |-> 0]]
    ELSE [raised |-> SummaryRaises(rs),
          output |-> [simulations |-> Len(rs), section |-> "summary",
                      total_simulations |-> Len(rs),
                      plaintiff_wins |-> Wins(rs, "plaintiff"),
                      defense_wins |-> Wins(rs, "defendant")]]

FileIdle == saved_file = None

\* mc_sim.results = [], as the caller of save_results does before it.
AssignEmptyResults ==
    /\ pc = "idle"
    /\ results' = <<>>
    /\ UNCHANGED <<heap, base_evidence, researched_statutes, researched_precedents,
                   analysis, pc, n_simulations, randomization_config, ret, calls,
                   variants, researched, i, trial, trials>>
    /\ UNCHANGED nonEngineVars

\* result = mc_sim.run_single_simulation(1, variables); mc_sim.results = [result]
AssignSingleResult ==
    /\ pc = "idle"
    /\ ret.op = "run_single_simulation"
    /\ ~ret.raised
    /\ results' = <<Val(ret.value)>>
    /\ UNCHANGED <<heap, base_evidence, researched_statutes, researched_precedents,
                   analysis, pc, n_simulations, randomization_config, ret, calls,
                   variants, researched, i, trial, trials>>
    /\ UNCHANGED nonEngineVars

\* save_results(filepath), called by the user of the engine.
SaveResults ==
    /\ pc = "idle"
    /\ LET saved == save_results(results, analysis) IN
          /\ ret' = [op |-> "save_results", raised |-> saved.raised, value |-> None]
          /\ saved_file' = IF saved.raised THEN saved_file ELSE Some(saved.output)
    /\ UNCHANGED <<heap, base_evidence, researched_statutes, researched_precedents,
                   results, analysis, pc, n_simulations, randomization_config,
                   calls, variants, researched, i, trial, trials>>
    /\ UNCHANGED <<verdictVars, simVars, mongoVars, parseVars, entryVars,
                   variablesVars, peripheralVars>>

----------------------------------------------------------------------------
(* One SimulationVariables object (montecarlo.py): made with the defaults,
   then randomized any number of times. *)

\* variables = SimulationVariables()
VariablesInit ==
    /\ sim_variables = DefaultVariables
    /\ randomize_call = None

FreshVariables ==
    /\ sim_variables' = DefaultVariables
    /\ randomize_call' = None
    /\ UNCHANGED <<engineVars, verdictVars, simVars, mongoVars, parseVars,
                   entryVars, fileVars, peripheralVars>>

\* variables.randomize(fixed_strategies, fixed_evidence)
Randomize ==
    /\ \E fixed_strategies \in BOOLEAN, fixed_evidence \in BOOLEAN,
          d \in RandomDraws :
          /\ sim_variables' = randomize(sim_variables, fixed_strategies,
                                        fixed_evidence, d)
          /\ randomize_call' = Some([fixed_strategies |-> fixed_strategies,
                                     fixed_evidence |-> fixed_evidence,
                                     before |-> sim_variables])
    /\ UNCHANGED <<engineVars, verdictVars, simVars, mongoVars, parseVars,
                   entryVars, fileVars, peripheralVars>>

----------------------------------------------------------------------------
(* One BaseAgent and its chat history (agents/baseAgent.py). *)

\* The largest memory_limit and the number of _add_message calls explored.
MaxMemoryLimit == 3
MaxMessages == 4

\* memory_limit values: None (unlimited) or an int; 0 is falsy.
MemoryLimits == {None} \cup {Some(l) : l \in 0..MaxMemoryLimit}

\* The roles _add_message is called with after construction.
ConversationRoles == {"user", "assistant", "tool"}

Message(role, id) == [role |-> role, id |-> id]

IsSystem(m) == m.role = "system"

IsOther(m) == m.role # "system"

\* s[start:] of a Python list, start of either sign.
PySliceFrom(s, start) ==
    LET from == IF start < 0 THEN (IF Len(s) + start < 0 THEN 0 ELSE Len(s) + start)
                ELSE Min2(start, Len(s))
    IN SubSeq(s, from + 1, Len(s))

\* BaseAgent._add_message: append, then apply the memory limit.
_add_message(history, limit, m) ==
    LET appended == Append(history, m)
    IN  IF ~IsNone(limit) /\ Val(limit) # 0 /\ Len(appended) > Val(limit)
        THEN LET system_messages == SelectSeq(appended, IsSystem)
                 other_messages == SelectSeq(appended, IsOther)
                 keep_count == Val(limit) - Len(system_messages)
             IN system_messages \o PySliceFrom(other_messages, -keep_count)
        ELSE appended

AgentIdle ==
    /\ memory_limit = None
    /\ chat_history = <<>>
    /\ added = <<>>

\* BaseAgent.__init__(name, system_prompt, memory_limit): a system prompt
\* that is not empty becomes the first message.
AgentInit ==
    /\ memory_limit \in MemoryLimits
    /\ \E system_prompt \in BOOLEAN :
          IF system_prompt
          THEN /\ added = <<Message("system", 1)>>
               /\ chat_history = _add_message(<<>>, memory_limit, Message("system", 1))
          ELSE /\ added = <<>>
               /\ chat_history = <<>>

\* A call of _add_message by send_message, by a tool response or by the
\* model's reply.
AddMessage ==
    /\ Len(added) < MaxMessages
    /\ \E role \in ConversationRoles :
          LET m == Message(role, Len(added) + 1) IN
          /\ added' = Append(added, m)
          /\ chat_history' = _add_message(chat_history, memory_limit, m)
    /\ UNCHANGED memory_limit
    /\ UNCHANGED exceptAgent


----------------------------------------------------------------------------
(* The specifications. *)

\* The engine, used through its public operations.
----------------------------------------------------------------------------
(* The legacy MonteCarloSimulation (simulation.py): run_simulations and
   _analyze_results. *)

\* num_simulations of the calls explored.
MaxLegacyTrials == 3

\* What one iteration does: the strategies drawn, the step at which the
\* simulation raises ("none", "prepare_case" or "run_trial") and the winner of
\* the verdict.
LegacyOutcomes ==
    [prosecutor_strategy : {"aggressive", "moderate"},
     defense_strategy : {"moderate"},
     fails : {"none", "prepare_case", "run_trial"},
     winner : {"plaintiff", "defendant", "settlement"}]

LegacyCanonicalOutcomes ==
    {o \in LegacyOutcomes :
        o.fails # "none" => o.winner = "defendant" /\ o.prosecutor_strategy = "moderate"}

\* Whether iteration i leaves the try block through `except`: prepare_case
\* is called in the first iteration only; the later ones read the local
\* base_evidence, which is unbound when the first prepare_case raised.
LegacyIterationFails(iter, base_bound, o) ==
    \/ iter = 0 /\ o.fails = "prepare_case"
    \/ iter > 0 /\ ~base_bound
    \/ o.fails = "run_trial"

\* The keys of a strategy dictionary, in insertion order.
RECURSIVE FirstSeen(_, _, _)
FirstSeen(rs, f, k) ==
    IF k > Len(rs) THEN <<>>
    ELSE LET rest == FirstSeen(rs, f, k + 1)
         IN <<rs[k][f]>> \o SelectSeq(rest, LAMBDA x : x # rs[k][f])

\* max(items, key = wins / total): the first item with the largest rate.
BestStrategy(keys, stats) ==
    LET Better(a, b) == stats[a].wins * stats[b].total > stats[b].wins * stats[a].total
        best == CHOOSE k \in DOMAIN keys :
                    /\ \A j \in DOMAIN keys : ~Better(keys[j], keys[k])
                    /\ \A j \in 1..(k - 1) : Better(keys[k], keys[j])
    IN keys[best]

\* _analyze_results(results): the empty dict for no result.
_analyze_results(rs) ==
    IF rs = <<>> THEN [empty |-> TRUE]
    ELSE LET p_keys == FirstSeen(rs, "prosecutor_strategy", 1)
             d_keys == FirstSeen(rs, "defense_strategy", 1)
             p_stats == [st \in Elems(p_keys) |->
                           [wins |-> Cardinality({k \in DOMAIN rs :
                                         /\ rs[k].prosecutor_strategy = st
                                         /\ rs[k].winner = "plaintiff"}),
                            total |-> Cardinality({k \in DOMAIN rs :
                                         rs[k].prosecutor_strategy = st})]]
             d_stats == [st \in Elems(d_keys) |->
                           [wins |-> Cardinality({k \in DOMAIN rs :
                                         /\ rs[k].defense_strategy = st
                                         /\ rs[k].winner # "plaintiff"}),
                            total |-> Cardinality({k \in DOMAIN rs :
                                         rs[k].defense_strategy = st})]]
         IN [empty |-> FALSE,
             plaintiff_wins |-> Cardinality({k \in DOMAIN rs : rs[k].winner = "plaintiff"}),
             defense_wins |-> Cardinality({k \in DOMAIN rs : rs[k].winner = "defendant"}),
             total |-> Len(rs),
             best_prosecutor_strategy |-> BestStrategy(p_keys, p_stats),
             best_defense_strategy |-> BestStrategy(d_keys, d_stats),
             strategy_stats |-> [prosecutor |-> p_stats, defense |-> d_stats]]

LegacyIdle ==
    /\ legacy_pc = "idle"
    /\ legacy_n = 0
    /\ legacy_i = 0
    /\ legacy_base = FALSE
    /\ legacy_results = <<>>
    /\ legacy_ret = [op |-> "__init__", raised |-> FALSE, value |-> None]

\* run_simulations(case_description, num_simulations = n) up to the loop.
LegacyRunStart ==
    /\ legacy_pc = "idle"
    /\ \E n \in 0..MaxLegacyTrials : legacy_n' = n
    /\ legacy_i' = 0
    /\ legacy_base' = FALSE
    /\ legacy_results' = <<>>
    /\ legacy_pc' = "loop"
    /\ legacy_ret' = [op |-> "run_simulations", raised |-> FALSE, value |-> None]
    /\ UNCHANGED exceptLegacy

\* One iteration of the loop.
LegacyTrial ==
    /\ legacy_pc = "loop"
    /\ legacy_i < legacy_n
    /\ \E o \in LegacyCanonicalOutcomes :
          /\ legacy_base' = (legacy_base \/ (legacy_i = 0 /\ o.fails # "prepare_case"))
          /\ legacy_results' =
                IF LegacyIterationFails(legacy_i, legacy_base, o)
                THEN legacy_results
                ELSE Append(legacy_results,
                            [simulation_id |-> legacy_i + 1,
                             prosecutor_strategy |-> o.prosecutor_strategy,
                             defense_strategy |-> o.defense_strategy,
                             winner |-> o.winner])
    /\ legacy_i' = legacy_i + 1
    /\ UNCHANGED <<legacy_pc, legacy_n, legacy_ret>>
    /\ UNCHANGED exceptLegacy

\* After the loop: the analysis, then the report, which reads
\* analysis['plaintiff_wins'] and raises KeyError on the empty dict.
LegacyFinish ==
    /\ legacy_pc = "loop"
    /\ legacy_i >= legacy_n
    /\ legacy_pc' = "idle"
    /\ LET analysis_ == _analyze_results(legacy_results) IN
          legacy_ret' =
              IF analysis_.empty
              THEN [op |-> "run_simulations", raised |-> TRUE, value |-> None]
              ELSE [op |-> "run_simulations", raised |-> FALSE,
                    value |-> Some([results |-> legacy_results,
                                    analysis |-> analysis_])]
    /\ UNCHANGED <<legacy_n, legacy_i, legacy_base, legacy_results>>
    /\ UNCHANGED exceptLegacy


----------------------------------------------------------------------------
(* MongoAgent (mongoAgent.py) and MongoDBManager.save_simulation. *)

\* The calls explored on one agent, and the save frequencies.
MaxAgentCalls == 4
MaxSaveFrequency == 2

\* MongoDBManager.save_simulation(simulation): replace the document of the
\* simulation's _id when it has one, insert a new document otherwise.  The
\* _id is put on the document, never on the simulation object.
db_save_simulation(collection, simulation) ==
    LET doc == [_id |-> simulation._id,
                chat_history |-> simulation.chat_history,
                status |-> simulation.status]
    IN  IF ~IsNone(simulation._id)
        THEN [collection |-> [k \in DOMAIN collection |->
                                IF collection[k]._id = simulation._id THEN doc
                                ELSE collection[k]],
              id |-> simulation._id]
        ELSE LET inserted_id == Some(Len(collection) + 1)
             IN [collection |-> Append(collection, [doc EXCEPT !._id = inserted_id]),
                 id |-> inserted_id]

\* MongoAgent.save_simulation(status): the agent and the collection after.
agent_save_simulation(a, collection, status) ==
    IF ~a.mongodb_enabled \/ ~a.db_manager \/ IsNone(a.current_simulation)
    THEN [agent |-> a, collection |-> collection]
    ELSE LET sim == IF IsNone(status) THEN Val(a.current_simulation)
                    ELSE [Val(a.current_simulation) EXCEPT !.status = Val(status)]
             saved == db_save_simulation(collection, sim)
         IN [agent |-> [a EXCEPT !.current_simulation = Some(sim),
                                 !.message_count_since_save = 0],
             collection |-> saved.collection]

\* MongoAgent._save_message_to_mongodb(message).
_save_message_to_mongodb(a, collection, m) ==
    IF ~a.mongodb_enabled \/ ~a.db_manager \/ IsNone(a.current_simulation)
    THEN [agent |-> a, collection |-> collection]
    ELSE LET sim == Val(a.current_simulation)
             b == [a EXCEPT
                     !.current_simulation =
                         Some([sim EXCEPT !.chat_history = Append(@, m)]),
                     !.message_count_since_save = @ + 1]
         IN  IF b.auto_save /\ b.message_count_since_save >= b.save_frequency
             THEN agent_save_simulation(b, collection, None)
             ELSE [agent |-> b, collection |-> collection]

NoMongoAgent ==
    [mongodb_enabled |-> FALSE, db_manager |-> FALSE, auto_save |-> FALSE,
     save_frequency |-> 1, current_simulation |-> None,
     current_simulation_id |-> None, message_count_since_save |-> 0,
     chat_history |-> <<>>]

MongoAgentIdle ==
    /\ mongo_agent_pc = "none"
    /\ mongo_agent = NoMongoAgent
    /\ simulations_collection = <<>>
    /\ mongo_agent_calls = 0

\* MongoAgent(name, system_prompt, mongodb_enabled, auto_save, save_frequency).
\* BaseAgent.__init__ adds a non-empty system prompt through the overridden
\* _add_message, which reads self.mongodb_enabled before it is assigned:
\* AttributeError.
MongoAgentConstruct ==
    /\ mongo_agent_pc = "none"
    /\ \E system_prompt \in BOOLEAN, enabled \in BOOLEAN, connects \in BOOLEAN,
          auto \in BOOLEAN, frequency \in 1..MaxSaveFrequency :
          IF system_prompt
          THEN /\ mongo_agent_pc' = "raised"
               /\ UNCHANGED <<mongo_agent, simulations_collection>>
          ELSE LET a == [NoMongoAgent EXCEPT !.mongodb_enabled = enabled,
                                             !.auto_save = auto,
                                             !.save_frequency = frequency]
                   sim == [_id |-> None, chat_history |-> <<>>,
                           status |-> "in_progress"]
                   saved == db_save_simulation(simulations_collection, sim)
               IN /\ mongo_agent_pc' = "live"
                  /\ IF enabled /\ connects
                     THEN /\ mongo_agent' =
                                [a EXCEPT !.db_manager = TRUE,
                                          !.current_simulation = Some(sim),
                                          !.current_simulation_id = saved.id]
                          /\ simulations_collection' = saved.collection
                     ELSE /\ mongo_agent' = [a EXCEPT !.mongodb_enabled = FALSE]
                          /\ UNCHANGED simulations_collection
    /\ UNCHANGED mongo_agent_calls
    /\ UNCHANGED exceptMongoAgent

\* MongoAgent._add_message(role, content): the parent's _add_message (no
\* memory limit), then the last message of the history goes to the store.
MongoAgentAddMessage ==
    /\ mongo_agent_pc = "live"
    /\ mongo_agent_calls < MaxAgentCalls
    /\ \E role \in {"user", "assistant"} :
          LET m == Message(role, mongo_agent_calls + 1)
              history == _add_message(mongo_agent.chat_history, None, m)
              a == [mongo_agent EXCEPT !.chat_history = history]
              after == IF a.mongodb_enabled /\ history # <<>>
                       THEN _save_message_to_mongodb(a, simulations_collection,
                                                     history[Len(history)])
                       ELSE [agent |-> a, collection |-> simulations_collection]
          IN /\ mongo_agent' = after.agent
             /\ simulations_collection' = after.collection
    /\ mongo_agent_calls' = mongo_agent_calls + 1
    /\ UNCHANGED mongo_agent_pc
    /\ UNCHANGED exceptMongoAgent

\* A manual save_simulation().
MongoAgentSaveSimulation ==
    /\ mongo_agent_pc = "live"
    /\ mongo_agent_calls < MaxAgentCalls
    /\ LET after == agent_save_simulation(mongo_agent, simulations_collection, None)
       IN /\ mongo_agent' = after.agent
          /\ simulations_collection' = after.collection
    /\ mongo_agent_calls' = mongo_agent_calls + 1
    /\ UNCHANGED mongo_agent_pc
    /\ UNCHANGED exceptMongoAgent

\* complete_simulation(): save with the status COMPLETED.
MongoAgentCompleteSimulation ==
    /\ mongo_agent_pc = "live"
    /\ mongo_agent_calls < MaxAgentCalls
    /\ LET after == IF ~mongo_agent.mongodb_enabled \/ ~mongo_agent.db_manager
                    THEN [agent |-> mongo_agent, collection |-> simulations_collection]
                    ELSE agent_save_simulation(mongo_agent, simulations_collection,
                                               Some("completed"))
       IN /\ mongo_agent' = after.agent
          /\ simulations_collection' = after.collection
    /\ mongo_agent_calls' = mongo_agent_calls + 1
    /\ UNCHANGED mongo_agent_pc
    /\ UNCHANGED exceptMongoAgent


----------------------------------------------------------------------------
(* get_db_manager (app.py) called by the request threads of the server:
   app.run serves each request in a thread of its own. *)

\* The request threads and the calls of get_db_manager explored.
MaxRequestThreads == 2
MaxGetDbManagerCalls == 4

RequestThreads == 1..MaxRequestThreads

ServerIdle ==
    /\ module_db_manager = None
    /\ thread_pc = [t \in RequestThreads |-> "idle"]
    /\ thread_local = [t \in RequestThreads |-> None]
    /\ managers_constructed = 0
    /\ get_db_manager_calls = 0

\* A request handler calls get_db_manager().
GetDbManagerCall(t) ==
    /\ thread_pc[t] = "idle"
    /\ get_db_manager_calls < MaxGetDbManagerCalls
    /\ get_db_manager_calls' = get_db_manager_calls + 1
    /\ thread_pc' = [thread_pc EXCEPT ![t] = "test"]
    /\ thread_local' = [thread_local EXCEPT ![t] = None]
    /\ UNCHANGED <<module_db_manager, managers_constructed>>
    /\ UNCHANGED exceptServer

\* `if db_manager is None:` reads the global.
GetDbManagerTest(t) ==
    /\ thread_pc[t] = "test"
    /\ thread_pc' = [thread_pc EXCEPT ![t] =
                        IF IsNone(module_db_manager) THEN "construct" ELSE "return"]
    /\ UNCHANGED <<module_db_manager, thread_local, managers_constructed,
                   get_db_manager_calls>>
    /\ UNCHANGED exceptServer

\* `MongoDBManager()` inside the try: a new manager, or an exception that
\* is caught and leaves the global as it is.
GetDbManagerConstruct(t) ==
    /\ thread_pc[t] = "construct"
    /\ \E conn \in Connections :
          LET made == MongoDBManager(conn) IN
          IF made.raised
          THEN /\ thread_pc' = [thread_pc EXCEPT ![t] = "return"]
               /\ UNCHANGED <<thread_local, managers_constructed>>
          ELSE /\ thread_pc' = [thread_pc EXCEPT ![t] = "assign"]
               /\ managers_constructed' = managers_constructed + 1
               /\ thread_local' = [thread_local EXCEPT ![t] =
                                      Some(managers_constructed + 1)]
    /\ UNCHANGED <<module_db_manager, get_db_manager_calls>>
    /\ UNCHANGED exceptServer

\* `db_manager = ...` stores the new manager in the global.
GetDbManagerAssign(t) ==
    /\ thread_pc[t] = "assign"
    /\ module_db_manager' = thread_local[t]
    /\ thread_pc' = [thread_pc EXCEPT ![t] = "return"]
    /\ UNCHANGED <<thread_local, managers_constructed, get_db_manager_calls>>
    /\ UNCHANGED exceptServer

\* `return db_manager` reads the global again.
GetDbManagerReturn(t) ==
    /\ thread_pc[t] = "return"
    /\ thread_local' = [thread_local EXCEPT ![t] = module_db_manager]
    /\ thread_pc' = [thread_pc EXCEPT ![t] = "idle"]
    /\ UNCHANGED <<module_db_manager, managers_constructed, get_db_manager_calls>>
    /\ UNCHANGED exceptServer

\* The peripheral components, not in use.
PeripheralIdle == AgentIdle /\ LegacyIdle /\ MongoAgentIdle /\ ServerIdle

\* The components checked on their own, not in use.
AuxIdle == ParseIdle /\ EntryIdle /\ FileIdle /\ VariablesInit /\ PeripheralIdle

Init ==
    /\ EngineInit
    /\ VerdictIdle
    /\ SimInit
    /\ MongoIdle
    /\ AuxIdle

Next ==
    \/ ResearchCase
    \/ CreateVariant
    \/ RunSingleSimulation
    \/ RunSimulationsStart
    \/ RunSimulationsTrial
    \/ RunSimulationsFinish
    \/ AnalyzeResults

Spec == Init /\ [][Next]_vars

\* The judge's evaluation, over every completion text.
InitVerdict ==
    /\ EngineInit
    /\ judge_response \in {Some(r) : r \in AllJudgeResponses}
    /\ judge_verdict = None
    /\ judge_path = "none"
    /\ SimInit
    /\ MongoIdle
    /\ AuxIdle

NextVerdict ==
    \/ EvaluateCase
    \/ TrialRaised

SpecVerdict == InitVerdict /\ [][NextVerdict]_vars

\* A LegalSimulation, used through prepare_case and run_trial.
NextTrial ==
    \/ PrepareCase
    \/ RunTrial

SpecTrial == Init /\ [][NextTrial]_vars

\* The engine with persistence.
InitMongo ==
    /\ EngineInit
    /\ VerdictIdle
    /\ SimInit
    /\ MongoInit
    /\ AuxIdle

NextMongo ==
    \/ ResearchCase
    \/ MongoRunSingleSimulation
    \/ MongoRunSimulationsStart
    \/ MongoRunSimulationsTrial
    \/ MongoRunSimulationsFinish

SpecMongo == InitMongo /\ [][NextMongo]_vars

\* Several runs of the engine with persistence, one after the other.
NextLinked ==
    \/ LinkedRunStart
    \/ LinkedRunTrial
    \/ MongoRunSimulationsFinish

SpecLinked == InitMongo /\ [][NextLinked]_vars

\* The agents' argument parsing, over every completion text.
InitParse ==
    /\ EngineInit
    /\ VerdictIdle
    /\ SimInit
    /\ MongoIdle
    /\ ParseInit
    /\ EntryIdle
    /\ FileIdle
    /\ VariablesInit
    /\ PeripheralIdle

NextParse ==
    \/ ProsecutorParseArgument
    \/ DefenseParseArgument

SpecParse == InitParse /\ [][NextParse]_vars

\* Construction and the API's entry point, in every environment.
InitEntry ==
    /\ EngineInit
    /\ VerdictIdle
    /\ SimInit
    /\ MongoIdle
    /\ ParseIdle
    /\ EntryInit
    /\ FileIdle
    /\ VariablesInit
    /\ PeripheralIdle

NextEntry ==
    \/ ConstructMongoEngine
    \/ RunSimulationRequest

SpecEntry == InitEntry /\ [][NextEntry]_vars

\* Single trials whose results the caller keeps and saves.
NextSave ==
    \/ ResearchCase
    \/ RunSingleSimulation
    \/ AssignEmptyResults
    \/ AssignSingleResult
    \/ SaveResults

SpecSave == Init /\ [][NextSave]_vars

\* One SimulationVariables object, randomized under every pair of flags.
NextVariables ==
    \/ FreshVariables
    \/ Randomize

SpecVariables == Init /\ [][NextVariables]_vars

\* The core and the other components idle, for the peripheral components.
CoreIdle ==
    /\ EngineInit
    /\ VerdictIdle
    /\ SimInit
    /\ MongoIdle
    /\ ParseIdle
    /\ EntryIdle
    /\ FileIdle
    /\ VariablesInit

\* One agent with every memory limit, with and without a system prompt.
InitAgent ==
    /\ CoreIdle
    /\ AgentInit
    /\ LegacyIdle
    /\ MongoAgentIdle
    /\ ServerIdle

NextAgent ==
    \/ AddMessage

SpecAgent == InitAgent /\ [][NextAgent]_vars

\* The legacy simulation, under every pattern of trial failures.
NextLegacy ==
    \/ LegacyRunStart
    \/ LegacyTrial
    \/ LegacyFinish

SpecLegacy == Init /\ [][NextLegacy]_vars

\* One MongoAgent and its calls.
NextMongoAgent ==
    \/ MongoAgentConstruct
    \/ MongoAgentAddMessage
    \/ MongoAgentSaveSimulation
    \/ MongoAgentCompleteSimulation

SpecMongoAgent == Init /\ [][NextMongoAgent]_vars

\* The request threads of one server process.
NextServer ==
    \E t \in RequestThreads :
        \/ GetDbManagerCall(t)
        \/ GetDbManagerTest(t)
        \/ GetDbManagerConstruct(t)
        \/ GetDbManagerAssign(t)
        \/ GetDbManagerReturn(t)

SpecServer == Init /\ [][NextServer]_vars

----------------------------------------------------------------------------
(* Properties of the engine. *)

\* A call of run_simulations(k) with k >= 1 that has ended.
RunEnded == pc = "idle" /\ ret.op = "run_simulations" /\ n_simulations >= 1

\* C1: run_simulations(k) with k >= 1 returns, whatever trials failed, an
\* analysis whose total_simulations is k, and self.results then holds exactly
\* k results whose simulation_id values are 1, ..., k in that order.
C1_RunYieldsKResults ==
    RunEnded =>
        /\ ~ret.raised
        /\ ~IsNone(ret.value)
        /\ Val(ret.value).total_simulations = n_simulations
        /\ Len(results) = n_simulations
        /\ \A k \in 1..n_simulations : results[k].simulation_id = k

\* A run of two trials has ended, one of them failed and one did not.
C1_Witness ==
    /\ RunEnded
    /\ n_simulations = 2
    /\ \E k \in DOMAIN results : results[k].prosecutor_arguments = <<>>
    /\ \E k \in DOMAIN results : results[k].prosecutor_arguments # <<>>

\* C2: when a step of a trial raises, run_single_simulation does not raise: it
\* returns a result for the same simulation_id and variables whose winner is
\* "defendant", outcome DEFENSE_WIN and confidence 0.0, marked as an error by
\* its key factor, its rationale and its empty argument lists (a trial no
\* step of which raised returns arguments); and the loop of run_simulations
\* has appended that result and moved on to the next index.
C2_FailedTrialYieldsMarkedDefenseWin ==
    \A t \in Elems(trial) :
        /\ ~t.raised
        /\ t.result.simulation_id = t.simulation_id
        /\ t.result.variables = t.variables
        /\ t.failed =>
              /\ t.result.verdict.winner = "defendant"
              /\ t.result.verdict.outcome = "DEFENSE_WIN"
              /\ t.result.verdict.confidence_score = 0
              /\ t.result.verdict.key_factors = <<"Error in simulation">>
              /\ t.result.verdict.rationale = "Simulation error: ..."
              /\ t.result.prosecutor_arguments = <<>>
              /\ t.result.defense_arguments = <<>>
        /\ ~t.failed =>
              /\ t.result.prosecutor_arguments # <<>>
              /\ t.result.defense_arguments # <<>>
        /\ ret.op = "run_simulations" =>
              /\ i = t.simulation_id + 1
              /\ Len(results) = t.simulation_id
              /\ results[t.simulation_id] = t.result
              /\ pc = "loop" \/ ~ret.raised

\* The first trial of a run of two failed at the judge's evaluation and the
\* loop is about to run the second.
C2_Witness ==
    /\ pc = "loop"
    /\ n_simulations = 2
    /\ i = 2
    /\ \E t \in Elems(trial) : t.failed
    /\ Len(calls) = 5
    /\ calls[5].raised

\* What the arguments of a completed canonical trial must be.
CanonicalProsecutorArgs ==
    <<LegalArgument("Prosecutor", "opening"), LegalArgument("Prosecutor", "rebuttal")>>
CanonicalDefenseArgs ==
    <<LegalArgument("Defense", "opening"), LegalArgument("Defense", "rebuttal")>>

\* The five role calls of the canonical protocol, with their inputs.
CanonicalCalls ==
    << RoleCall("Prosecutor", "make_opening_argument", <<>>, <<>>, <<>>, FALSE),
       RoleCall("Defense", "make_opening_argument", <<>>, <<>>, <<>>, FALSE),
       RoleCall("Prosecutor", "make_rebuttal",
                <<LegalArgument("Defense", "opening")>>, <<>>, <<>>, FALSE),
       RoleCall("Defense", "make_rebuttal",
                <<LegalArgument("Prosecutor", "opening")>>, <<>>, <<>>, FALSE),
       RoleCall("Judge", "evaluate_case", <<>>,
                CanonicalProsecutorArgs, CanonicalDefenseArgs, FALSE) >>

\* C3: in a trial that completes without error the role calls are, in this
\* order, the plaintiff's opening, the defence's opening, the plaintiff's
\* rebuttal given the defence's opening, the defence's rebuttal given the
\* plaintiff's opening (not the plaintiff's rebuttal) and one evaluation by
\* the judge over both argument lists; nothing else is called and the result
\* carries exactly those arguments.
C3_CanonicalCallOrder ==
    \A t \in Elems(trial) :
        ~t.failed =>
            /\ calls = CanonicalCalls
            /\ t.result.prosecutor_arguments = CanonicalProsecutorArgs
            /\ t.result.defense_arguments = CanonicalDefenseArgs

\* A trial of the loop completed without error.
C3_Witness ==
    /\ ret.op = "run_simulations"
    /\ \E t \in Elems(trial) : ~t.failed /\ t.result.verdict.winner = "plaintiff"
    /\ Len(calls) = 5

\* C6: the result of a trial whose completion calls all returned text has a
\* winner in {"plaintiff", "defendant"} and exactly 2 plaintiff and 2 defence
\* arguments.
C6_BinaryWinner ==
    \A t \in Elems(trial) :
        ~t.failed =>
            /\ t.result.verdict.winner \in {"plaintiff", "defendant"}
            /\ Len(t.result.prosecutor_arguments) = 2
            /\ Len(t.result.defense_arguments) = 2

\* C7: in every analysis run_simulations returns, plaintiff_wins plus
\* defense_wins equals total_simulations.
C7_WinsSumToTotal ==
    \A a \in Elems(analysis) :
        a.plaintiff_wins + a.defense_wins = a.total_simulations

\* C9: the variants derived by two calls of create_variant_evidence share no
\* list object in any list field, so an entry appended for one is never seen
\* in the other.
C9_VariantsShareNoList ==
    \A j, k \in DOMAIN variants :
        j # k =>
            \A f, g \in ListFields : variants[j].variant[f] # variants[k].variant[g]

\* C10: once research has completed, the content of every field of
\* base_evidence stays what research produced.
C10_BaseEvidenceUnchanged ==
    \A r \in Elems(researched) :
        Content(heap, Val(base_evidence)) = r

----------------------------------------------------------------------------
(* Properties of LegalSimulation. *)

\* C4: after any call of run_trial that returns a verdict, whatever
\* include_rebuttals is and whether or not run_trial was called before, the
\* plaintiff and defence argument lists each hold exactly 2 arguments and
\* the judge evaluated exactly those 2 + 2.
C4_RunTrialHoldsTwoAndTwo ==
    (sim_ret.op = "run_trial" /\ ~sim_ret.raised) =>
        /\ Len(sim_arguments.prosecutor) = 2
        /\ Len(sim_arguments.defense) = 2
        /\ sim_calls[Len(sim_calls)].prosecutor_args = CanonicalProsecutorArgs
        /\ sim_calls[Len(sim_calls)].defense_args = CanonicalDefenseArgs

----------------------------------------------------------------------------
(* Properties of the engine with persistence. *)

\* C5: every trial run through the engine with persistence runs the
\* canonical protocol (standard format, the five role calls in order) and
\* returns; the enhanced trial is never selected by the engine itself.
C5_MongoTrialsAreCanonical ==
    \A t \in Elems(trial) :
        /\ trial_format = "standard"
        /\ ~t.raised
        /\ ~t.failed => calls = CanonicalCalls

----------------------------------------------------------------------------
(* Properties of the judge's verdict. *)

\* C8: every Verdict made (structured parse, text fallback, failed trial)
\* has a confidence between 0 and 1; a reported value above 1 becomes 1, one
\* below 0 becomes 0, one inside the interval is kept, a value missing from
\* otherwise valid JSON becomes 0.7, the fallback always gives 0.5 and the
\* failed trial 0.0.
C8_ConfidenceInUnitInterval ==
    \A v \in Elems(judge_verdict) :
        LET c == Val(judge_response).confidence IN
        /\ v.confidence_score >= 0
        /\ v.confidence_score <= 100
        /\ judge_path = "structured" =>
              /\ (c.kind = "num" /\ c.v > 100) => v.confidence_score = 100
              /\ (c.kind = "num" /\ c.v < 0) => v.confidence_score = 0
              /\ (c.kind = "num" /\ c.v >= 0 /\ c.v <= 100) => v.confidence_score = c.v
              /\ c.kind = "missing" => v.confidence_score = 70
        /\ judge_path = "fallback" => v.confidence_score = 50
        /\ judge_path = "error" => v.confidence_score = 0

\* A JSON verdict that reported 95 (meant as a percentage) was parsed on the
\* structured path and its confidence is 1.0.
C8_Witness ==
    /\ judge_path = "structured"
    /\ \E r \in Elems(judge_response) : r.confidence.kind = "num" /\ r.confidence.v = 9500
    /\ \E v \in Elems(judge_verdict) : v.confidence_score = 100

----------------------------------------------------------------------------
(* Properties of the engine, continued. *)

\* C11: create_variant_evidence is deterministic: two calls on one engine
\* with equal SimulationVariables return variants whose fields have equal
\* content, however many variants were derived in between.
C11_DerivationDeterministic ==
    \A j, k \in DOMAIN variants :
        variants[j].variables = variants[k].variables =>
            variants[j].returned = variants[k].returned

\* The facts of a researched packet that are about the NDA.
IsNDAFact(f) == f = "Defendant signed an NDA"

\* C12: when the base evidence was researched with has_nda = True and holds
\* an NDA-related fact, a variant derived with variables.has_nda = False has
\* has_nda = False and holds no NDA-related fact of the base.
C12_NDAOverrideWins ==
    \A r \in Elems(researched) :
        \A j \in DOMAIN variants :
            (/\ r.has_nda
             /\ \E f \in Elems(r.facts) : IsNDAFact(f)
             /\ ~variants[j].variables.has_nda) =>
                /\ ~variants[j].returned.has_nda
                /\ \A f \in Elems(variants[j].returned.facts) : ~IsNDAFact(f)

FirstMaximiser(rs, side) ==
    LET Score(k) == IF rs[k].verdict.winner = side
                    THEN rs[k].verdict.confidence_score ELSE 0
        M == {k \in DOMAIN rs : \A j \in DOMAIN rs : Score(j) <= Score(k)}
    IN CHOOSE k \in M : \A j \in M : k <= j

\* C14: for each side the best configuration of the analysis is the
\* variables of the result with the smallest index among those that maximise
\* (1 if winner == side else 0) * confidence_score: ties go to the first.
C14_BestConfigIsFirstMaximiser ==
    (pc = "idle" /\ results # <<>>) =>
        \A a \in Elems(analysis) :
            /\ a.best_plaintiff_config =
                  results[FirstMaximiser(results, "plaintiff")].variables
            /\ a.best_defense_config =
                  results[FirstMaximiser(results, "defendant")].variables

\* A run of two trials with different variables ended in a tie for the
\* plaintiff's side, and the analysis reports the first trial's variables.
C14_Witness ==
    /\ pc = "idle"
    /\ Len(results) = 2
    /\ results[1].variables # results[2].variables
    /\ BestKey(results[1], "plaintiff") = BestKey(results[2], "plaintiff")
    /\ \E a \in Elems(analysis) : a.best_plaintiff_config = results[1].variables

----------------------------------------------------------------------------
(* Properties of the agents' argument parsing. *)

Populated(m) == m.kind = "str" /\ m.s # ""

\* C15: _parse_json_argument never raises past its caller, whatever the
\* completion text and whatever each stage of the cascade does with it (a stage
\* that itself fails included), and the LegalArgument it returns has
\* main_argument populated.
C15_ParseNeverRaisesAndPopulates ==
    arg_result # None =>
        /\ ~Val(arg_result).raised
        /\ Populated(Val(arg_result).main_argument)

----------------------------------------------------------------------------
(* Properties of the engine with persistence, continued. *)

\* No database operation has succeeded: no document was ever stored and no
\* simulation was ever saved.
EveryPersistenceOperationFailed ==
    research_collection = <<>> /\ saved_simulation_ids = <<>>

\* C16: when every persistence operation fails, run_simulations(n) of the
\* engine with persistence and auto_save on completes for every n >= 1: no
\* error leaves it, and it returns the n results and the analysis of them
\* that the run without persistence returns.
C16_RunSurvivesPersistenceFailure ==
    (RunEnded /\ auto_save /\ EveryPersistenceOperationFailed) =>
        /\ ~ret.raised
        /\ Len(results) = n_simulations
        /\ ret.value = Some(analyze_results(results))

----------------------------------------------------------------------------
(* Properties of construction and of the entry point. *)

\* C17: trials and analysis need no database: the engine with persistence can
\* be constructed with auto_save off and no db_manager when no connection
\* exists, and the run-simulation entry point does not refuse a request for
\* lack of a database.
C17_TrialsNeedNoDatabase ==
    /\ \A c \in Elems(constructed) : ~c.auto_save => ~c.raised
    /\ \A r \in Elems(api_response) : r.error # "Database connection failed"

----------------------------------------------------------------------------
(* Properties of the engine: research. *)

\* A step of run_simulations: its start, or a step of its loop.
RunSimulationsStep == pc = "loop" \/ pc' = "loop"

\* C18: run_simulations calls research exactly when there is no base evidence
\* yet; so over any sequence of run_simulations calls research runs at most
\* once, before the first trial, and every trial derives its variant from
\* that one base evidence.
C18_ResearchAtMostOnce ==
    [][RunSimulationsStep =>
          /\ (pc = "idle" /\ IsNone(base_evidence)) =>
                 /\ ~IsNone(base_evidence')
                 /\ researched' = Some(Content(heap', Val(base_evidence')))
                 /\ results' = <<>>
          /\ ~IsNone(base_evidence) =>
                 /\ base_evidence' = base_evidence
                 /\ researched' = researched
          /\ pc = "loop" => ~IsNone(base_evidence)
          /\ Len(variants') = Len(variants) + 1 =>
                 \E d \in SampleDraws :
                    LET variables == LoopVariables(d)
                        cv == create_variant_evidence(heap, Val(base_evidence),
                                  researched_statutes, researched_precedents,
                                  variables)
                    IN variants' = Append(variants, Derivation(cv, variables))
      ]_vars

\* A run begun with base evidence has made its trial: the derivation made
\* before the run is still there, so the run did not research.
C18_Witness ==
    /\ pc = "loop"
    /\ i = 2
    /\ Len(results) = 1
    /\ Len(variants) = 2
    /\ trials = 2

----------------------------------------------------------------------------
(* Properties of save_results. *)

\* C19: save_results completes without raising whenever self.analysis is
\* None, whatever self.results holds: no result, or results with any winner
\* the judge can produce.
C19_SaveWithoutAnalysisCompletes ==
    (ret.op = "save_results" /\ IsNone(analysis)) => ~ret.raised

----------------------------------------------------------------------------
(* Properties of SimulationVariables. *)

\* The declared domains of the fields.
InDeclaredDomain(v) ==
    /\ v.prosecutor_strategy \in {"aggressive", "moderate", "conservative"}
    /\ v.defense_strategy \in {"aggressive", "moderate", "conservative"}
    /\ v.judge_temperament \in {"strict", "balanced", "lenient"}
    /\ v.has_nda \in BOOLEAN
    /\ v.evidence_strength \in {"weak", "moderate", "strong"}
    /\ v.venue_bias \in {"plaintiff-friendly", "neutral", "defendant-friendly"}
    /\ v.num_statutes_cited \in 2..5
    /\ v.num_precedents_cited \in 2..5
    /\ v.defendant_cooperation \in {"hostile", "moderate", "cooperative"}
    /\ v.plaintiff_damages_claim \in {"minimal", "moderate", "extensive"}
    /\ v.time_since_departure \in 1..12
    /\ v.competitor_relationship \in {"direct", "indirect", "none"}

StrategyFields == {"prosecutor_strategy", "defense_strategy", "judge_temperament"}

EvidenceFields == {"has_nda", "evidence_strength", "venue_bias"}

\* C20: after randomize(fixed_strategies, fixed_evidence) every field lies in
\* its declared domain, and the fields covered by a flag that is set (the
\* three strategy fields; has_nda, evidence_strength and venue_bias) have the
\* values they had before the call.
C20_RandomizeRespectsDomainsAndFlags ==
    \A c \in Elems(randomize_call) :
        /\ InDeclaredDomain(sim_variables)
        /\ c.fixed_strategies =>
               \A f \in StrategyFields : sim_variables[f] = c.before[f]
        /\ c.fixed_evidence =>
               \A f \in EvidenceFields : sim_variables[f] = c.before[f]

\* An object randomized before is randomized with both flags set while the
\* random source returns other values for every covered field.
C20_Witness ==
    \E c \in Elems(randomize_call) :
        /\ c.fixed_strategies /\ c.fixed_evidence
        /\ c.before.prosecutor_strategy = "aggressive"
        /\ c.before.evidence_strength = "strong"
        /\ ~c.before.has_nda
        /\ sim_variables.time_since_departure = 12
        /\ sim_variables.num_statutes_cited = 5
        /\ sim_variables.prosecutor_strategy = "aggressive"

\* A request with a case description and num_simulations >= 1 was answered
\* while the database was available.
ServedRequest ==
    /\ ~IsNone(api_request)
    /\ Val(api_request).case_description
    /\ Val(api_request).num_simulations >= 1
    /\ ~IsNone(app_db_manager)

\* C21: for every request with num_simulations >= 1 the number of trials run
\* is 1 when num_simulations = 1 and min(num_simulations, 10) otherwise; a
\* single-trial request is answered with the trial's verdict summary and a
\* multi-trial request with a summary whose total_simulations is the number
\* of trials run.
C21_RequestRunsCappedTrials ==
    ServedRequest =>
        LET n == Val(api_request).num_simulations
            r == Val(api_response)
        IN /\ r.status = 200
           /\ r.trials = IF n = 1 THEN 1 ELSE Min2(n, 10)
           /\ r.trials <= 10
           /\ r.total_simulations = r.trials

----------------------------------------------------------------------------
(* Properties of the engine: variants and analysis. *)

\* The entries the variables of one trial require, per list.
RequiredFacts(variables) ==
    IF variables.defendant_cooperation = "cooperative"
    THEN <<"Defendant has cooperated with investigation">> ELSE <<>>

RequiredDisputedFacts(variables) ==
    IF variables.defendant_cooperation = "hostile"
    THEN <<"Defendant refuses to cooperate with discovery">> ELSE <<>>

RequiredDefendantClaims(variables) ==
    (IF variables.time_since_departure > 6
     THEN <<TimeGapClaim(variables.time_since_departure)>> ELSE <<>>)
    \o (IF variables.competitor_relationship = "none"
        THEN <<"Companies are not direct competitors">> ELSE <<>>)

\* C22: the facts, disputed_facts and defendant_claims of every variant are
\* the researched base lists plus exactly the entries its own variables
\* require, with nothing left over from earlier derivations; its statutes
\* and precedents are the first num_statutes_cited / num_precedents_cited
\* researched items, in research order.
C22_VariantIsBasePlusOwnEntries ==
    \A r \in Elems(researched) :
        \A j \in DOMAIN variants :
            LET v == variants[j].variables
                e == variants[j].returned
            IN /\ e.facts = r.facts \o RequiredFacts(v)
               /\ e.disputed_facts = r.disputed_facts \o RequiredDisputedFacts(v)
               /\ e.defendant_claims =
                      r.defendant_claims \o RequiredDefendantClaims(v)
               /\ e.statutes = SliceTo(r.statutes, v.num_statutes_cited)
               /\ e.precedents = SliceTo(r.precedents, v.num_precedents_cited)

\* The number of results with value v in field f that side won, and the
\* number of results with value v in field f.
WonWith(rs, f, v, side) ==
    Cardinality({k \in DOMAIN rs :
                    rs[k].variables[f] = v /\ rs[k].verdict.winner = side})

TrialsWith(rs, f, v) == Cardinality({k \in DOMAIN rs : rs[k].variables[f] = v})

\* C23: in strategy_performance the win rate of a prosecutor strategy is the
\* fraction of its trials the plaintiff won, the win rate of a defense
\* strategy the fraction of its trials the defendant won, and for a judge
\* temperament plaintiff_rate and defense_rate are the fractions of its
\* trials won by the plaintiff and by the defendant: a trial is a defense win
\* in the temperament table exactly when it counts in defense_wins.
C23_StrategyRatesAreWinFractions ==
    (pc = "idle" /\ results # <<>>) =>
        \A a \in Elems(analysis) :
            LET sp == a.strategy_performance IN
            /\ \A st \in DOMAIN sp.prosecutor :
                  sp.prosecutor[st].win_rate =
                      Frac(WonWith(results, "prosecutor_strategy", st, "plaintiff"),
                           TrialsWith(results, "prosecutor_strategy", st))
            /\ \A st \in DOMAIN sp.defense :
                  sp.defense[st].win_rate =
                      Frac(WonWith(results, "defense_strategy", st, "defendant"),
                           TrialsWith(results, "defense_strategy", st))
            /\ \A t \in DOMAIN sp.judge :
                  /\ sp.judge[t].plaintiff_rate =
                        Frac(WonWith(results, "judge_temperament", t, "plaintiff"),
                             TrialsWith(results, "judge_temperament", t))
                  /\ sp.judge[t].defense_rate =
                        Frac(WonWith(results, "judge_temperament", t, "defendant"),
                             TrialsWith(results, "judge_temperament", t))

\* C24: the analysis is defined for a result list of any size, zero
\* included: with no result (before any trial, or for run_simulations(0))
\* analyze_results and run_simulations return an analysis with zero counts
\* and raise no error.
C24_AnalysisDefinedForNoResults ==
    (pc = "idle" /\ ret.op \in {"run_simulations", "analyze_results"}
                 /\ results = <<>>) =>
        /\ ~ret.raised
        /\ \A a \in Elems(ret.value) :
              /\ a.total_simulations = 0
              /\ a.plaintiff_wins = 0
              /\ a.defense_wins = 0

----------------------------------------------------------------------------
(* Properties of the agent's chat history. *)

\* s ends with t.
IsSuffix(t, s) ==
    /\ Len(t) <= Len(s)
    /\ t = SubSeq(s, Len(s) - Len(t) + 1, Len(s))

\* C25: for an agent with memory_limit = L >= 1, after every _add_message
\* the chat history holds at most L messages, every system message is still
\* in it, and the other messages kept are the most recent ones in their
\* original order; also when L is not larger than the number of system
\* messages.
C25_HistoryWithinMemoryLimit ==
    \A L \in Elems(memory_limit) :
        L >= 1 =>
            /\ Len(chat_history) <= L
            /\ SelectSeq(chat_history, IsSystem) = SelectSeq(added, IsSystem)
            /\ IsSuffix(SelectSeq(chat_history, IsOther), SelectSeq(added, IsOther))

----------------------------------------------------------------------------
(* Properties of the engine: the best configurations. *)

\* The variables of the trials side won.
WinningConfigs(rs, side) ==
    {rs[k].variables : k \in {j \in DOMAIN rs : rs[j].verdict.winner = side}}

\* C26: a best configuration the analysis reports for a side is the
\* variables of a trial that side won: when the side won no trial, the
\* configuration of a lost trial is not presented as its best.
C26_BestConfigIsOfAWonTrial ==
    (pc = "idle" /\ results # <<>>) =>
        \A a \in Elems(analysis) :
            /\ a.best_plaintiff_config \in WinningConfigs(results, "plaintiff")
            /\ a.best_defense_config \in WinningConfigs(results, "defendant")

----------------------------------------------------------------------------
(* Properties of the engine with persistence: the saved simulations. *)

\* run_simulations of the engine with persistence has returned.
MongoRunReturned ==
    pc = "idle" /\ ret.op = "run_simulations" /\ ~ret.raised /\ auto_save

----------------------------------------------------------------------------
(* Properties of the legacy simulation. *)

\* C28: the legacy run_simulations(num_simulations = n) returns normally,
\* with a results list and an analysis, for every pattern of trial failures:
\* the first trial failing during case preparation and all n trials failing
\* included.
C28_LegacyRunAlwaysReturns ==
    (legacy_pc = "idle" /\ legacy_ret.op = "run_simulations" /\ legacy_n >= 1) =>
        /\ ~legacy_ret.raised
        /\ \A v \in Elems(legacy_ret.value) : v.results = legacy_results

----------------------------------------------------------------------------
(* Properties of the MongoAgent. *)

\* C29: a MongoAgent persists its conversation into one simulation document:
\* over any sequence of messages, automatic saves, manual saves and
\* complete_simulation, the store holds exactly one document, its id is
\* current_simulation_id, and each save updates it rather than inserting.
C29_OneSimulationDocument ==
    (mongo_agent_pc = "live" /\ mongo_agent.mongodb_enabled) =>
        /\ Len(simulations_collection) = 1
        /\ simulations_collection[1]._id = mongo_agent.current_simulation_id

----------------------------------------------------------------------------
(* Properties of the server process. *)

\* C30: per server process at most one MongoDBManager is ever constructed
\* by get_db_manager, also when several requests call it concurrently while
\* the module-level db_manager is still None.
C30_AtMostOneManager ==
    managers_constructed <= 1

====
